---- MODULE Spec2Model ----
(***************************************************************************)
(* gobuildcache: the GOCACHEPROG request broker (CacheProg), its           *)
(* single-flight layer, the disk backend it stores entries in, and the     *)
(* filesystem-lock groups of package dedupe.                               *)
(*                                                                         *)
(* Spec     : one broker process serving requests read from stdin.         *)
(* LockSpec : several processes calling the filesystem-lock groups on one  *)
(*            shared lock directory.                                       *)
(***************************************************************************)
EXTENDS Integers, Sequences, FiniteSets, TLC

\* ------------------------------------------------------------------ bounds

\* Requests the peer sends to one broker process.
MaxReq == 3

\* Request handlers running at the same time (the code spawns without limit).
MaxInFlight == 2

\* Faults the environment produces in one run of the broker: backend calls
\* the error-injecting backend fails, and a failing write to stdout.
MaxFaults == 1

\* Goroutines that call the lock groups in LockSpec; two share a process.
MaxCallers == 3

\* Calls each goroutine of LockSpec makes.
MaxCalls == 2

\* Probes of TryLockContext before its context expires (1 s / 10 ms in the code).
MaxProbes == 2

\* ReadSpec: the most lines the input holds.
MaxLines == 4
MaxRetries == 2

\* ------------------------------------------------------------- data domains

\* Byte strings are sequences of numbers 0..255.
ActionIDs == { <<10>>, <<171>> }

\* What a put carries: OutputID, the decoded body line, and the BodySize the
\* request line states.
Payload(oid, body, size) == [oid |-> oid, body |-> body, size |-> size]

\* The puts the peer sends: two different outputs for the first ActionID, a
\* put that states a BodySize its body does not have, and for the second
\* ActionID the zero-length body (no body line is sent).
PutInputs ==
    { <<<<10>>,  Payload(<<1>>, <<7>>, 1)>>,
      <<<<10>>,  Payload(<<2>>, <<8, 9>>, 2)>>,
      <<<<10>>,  Payload(<<2>>, <<8>>, 2)>>,
      <<<<171>>, Payload(<<3>>, <<>>, 0)>> }

\* A command name the broker does not know.
UnknownCmds == { "stat" }

HexDigits == <<"0","1","2","3","4","5","6","7","8","9","a","b","c","d","e","f">>

\* hex.EncodeToString: two lowercase digits per byte.
RECURSIVE HexEncode(_)
HexEncode(bytes) ==
    IF bytes = <<>> THEN <<>>
    ELSE <<HexDigits[(Head(bytes) \div 16) + 1], HexDigits[(Head(bytes) % 16) + 1]>>
         \o HexEncode(Tail(bytes))

HexValue(d) == (CHOOSE k \in 1..16 : HexDigits[k] = d) - 1

IsHex(s) == Len(s) % 2 = 0 /\ \A k \in 1..Len(s) : \E j \in 1..16 : HexDigits[j] = s[k]

\* hex.DecodeString on a string IsHex accepts.
RECURSIVE HexDecode(_)
HexDecode(s) ==
    IF Len(s) < 2 THEN <<>>
    ELSE <<HexValue(s[1]) * 16 + HexValue(s[2])>> \o HexDecode(SubSeq(s, 3, Len(s)))

\* The single-flight key of a request: "put:" or "get:" followed by the hex ActionID.
SfKey(cmd, aid) == <<cmd, ":">> \o HexEncode(aid)

\* Disk.actionIDToPath and Disk.metadataPath (baseDir is absolute, so
\* filepath.Abs returns the path as it is).
ActionIDToPath(aid) == <<"/cache/">> \o HexEncode(aid)

MetadataPath(aid) == ActionIDToPath(aid) \o <<".meta">>

\* The sidecar text Disk.Put formats: three lines, key and value.
FormatMeta(oid, size, now) ==
    << <<"outputID", HexEncode(oid)>>, <<"size", size>>, <<"time", now>> >>

\* The value Disk.Get scans from the lines with the given prefix (the last
\* such line wins); Sscanf leaves the variable at its zero value when the
\* line carries nothing after the prefix.
RECURSIVE ScanMeta(_, _, _)
ScanMeta(lines, key, zero) ==
    IF lines = <<>> THEN zero
    ELSE LET rest == ScanMeta(SubSeq(lines, 1, Len(lines) - 1), key, zero)
             last == lines[Len(lines)]
         IN  IF last[1] = key /\ last[2] # zero THEN last[2] ELSE rest

\* ------------------------------------------------------------------ wire

\* Error texts are sequences of words; the empty text is no error.
NoErr == <<>>

ZeroResponse ==
    [ID |-> 0, Err |-> NoErr, KnownCommands |-> <<>>, Miss |-> FALSE,
     OutputID |-> <<>>, Size |-> 0, Time |-> <<>>, DiskPath |-> <<>>]

ResponseFields == DOMAIN ZeroResponse

\* json.Marshal of a Response: every field is omitempty, so a field holding
\* its zero value is left out of the object.
Marshal(resp) ==
    [f \in {g \in ResponseFields : resp[g] # ZeroResponse[g]} |-> resp[f]]

\* What the peer decodes from a line: absent fields take their zero value.
Unmarshal(obj) ==
    [f \in ResponseFields |-> IF f \in DOMAIN obj THEN obj[f] ELSE ZeroResponse[f]]


\* ------------------------------------------------------------------ state

VARIABLES
    runpc,      \* where CacheProg.Run is
    runErr,     \* what Run returned: "running" until it returns, then "nil" or the error
    reqs,       \* the requests ReadRequest has returned, in the order read
    hpc,        \* hpc[i]: where the handling of reqs[i] is
    hlead,      \* hlead[i]: the leader whose call request i waits for (0: none)
    hres,       \* hres[i]: what sfGroup.Do returned to the handler of request i
    sfm,        \* the single-flight map: key -> request leading the call in flight
    wg,         \* the WaitGroup counter of Run
    errChan,    \* the buffered error channel of Run (capacity 1)
    done,       \* whether the done channel of Run is closed
    wmu,        \* who holds cp.writer's mutex: -1 nobody, 0 Run, i the handler of request i
    wbuf,       \* the bytes buffered in cp.writer.w
    werr,       \* the sticky error of cp.writer.w
    output,     \* what has reached stdout
    fs,         \* the cache directory: path -> content
    closeCalls, \* how often Backend.Close was invoked
    closeErr,   \* what Backend.Close returned
    faults,     \* the faults the environment has produced
    stdin,      \* the input: "open", or how ReadRequest found it ended
    s3get,      \* S3Spec: request -> the body its open GetObject response streams
    acked,      \* acked[A]: the payload of the put to A answered successfully last
    expect,     \* expect[i]: what the get reqs[i] has to return by the read-your-writes rule
    lpc,        \* LockSpec: lpc[c], where caller c is in Do
    lgrp,       \* LockSpec: the group caller c calls: "flock" (FSLockGroup) or "fslock"
    lkey,       \* LockSpec: the key of the call caller c makes
    lcalls,     \* LockSpec: the calls caller c has completed
    lprobes,    \* LockSpec: the failed probes of TryLockContext in the call of caller c
    flocks,     \* LockSpec: lock file -> the caller whose descriptor holds the flock
    gcalls,     \* LockSpec: gcalls[p], the calls map of the GofslockGroup of process p
    lwait,      \* LockSpec: the call whose done channel caller c waits on
    lret,       \* LockSpec: what the last call of caller c returned
    gresults,   \* LockSpec: call.result and call.err of the calls whose fn returned
    lcroot,     \* CacheSpec: whether the cache root directory exists
    lcfiles,    \* CacheSpec: the files in the cache root: name -> content
    lcsub,      \* CacheSpec: whether the root holds a non-empty subdirectory
    lcret,      \* CacheSpec: the last operation on the directory and what it returned
    rdin,       \* ReadSpec: the input lines not yet read
    rdout,      \* ReadSpec: what the calls of ReadRequest returned, in order
    mpc,        \* MemSpec: where goroutine c is in MemLock.DoWithLock
    mkey,       \* MemSpec: the key of the call of goroutine c
    mmu,        \* MemSpec: the goroutine that holds the MemLock's own mutex, or 0
    mlocks,     \* MemSpec: the locks map of the MemLock
    mruns,      \* MemSpec: how often the fn of goroutine c has run
    rtpc,       \* RetrySpec: where HandleRequestWithRetries is
    rtreq,      \* RetrySpec: the request
    rtn,        \* RetrySpec: maxRetries
    rtattempt,  \* RetrySpec: the loop variable attempt
    rtreader,   \* RetrySpec: the bytes req.Body has not yet delivered
    rtpassed,   \* RetrySpec: per call of HandleRequest, what req.Body held then
    rterr       \* RetrySpec: the error of the last call of HandleRequest

brokerVars ==
    <<runpc, runErr, reqs, hpc, hlead, hres, sfm, wg, errChan, done, wmu, wbuf,
      werr, output, fs, closeCalls, closeErr, faults, stdin, s3get, acked,
      expect>>

lockVars == <<lpc, lgrp, lkey, lcalls, lprobes, flocks, gcalls, lwait, lret,
              gresults>>

readVars == <<rdin, rdout>>

memVars == <<mpc, mkey, mmu, mlocks, mruns>>

retryVars == <<rtpc, rtreq, rtn, rtattempt, rtreader, rtpassed, rterr>>

cacheVars == <<lcroot, lcfiles, lcsub, lcret, readVars, memVars, retryVars>>

vars == <<brokerVars, stdin, s3get,
                   lockVars, cacheVars>>

Requests == 1..Len(reqs)

NoPayload == [oid |-> <<>>, body |-> <<>>, size |-> -1]

ZeroResult ==
    [set |-> FALSE, outputID |-> <<>>, diskPath |-> <<>>, size |-> 0,
     putTime |-> <<>>, miss |-> FALSE, err |-> NoErr]

\* Function update that may extend the domain (a Go map assignment).
MapPut(m, k, v) == [x \in DOMAIN m \cup {k} |-> IF x = k THEN v ELSE m[x]]

\* delete(m, k) and os.Remove.
MapDelete(m, k) == [x \in DOMAIN m \ {k} |-> m[x]]

EmptyMap == [x \in {} |-> 0]

\* time.Now().Unix() (the runs modelled are shorter than a second).
Now == 1

\* Whether the environment may produce one more fault.
MayFail == faults < MaxFaults

\* --------------------------------------------------------- the disk backend

\* Mutant: the body file comes into being only when a body is copied.
DiskCreateLazy(files, aid) == files

\* Disk.Put, os.Create: the body file exists and is empty.
DiskCreate(files, aid) == MapPut(files, ActionIDToPath(aid), <<>>)

\* Disk.Put, the body: io.Copy into the file when bodySize > 0 (the request
\* carries a reader only then); a length other than bodySize removes the file.
DiskCopyOk(body, size) == size > 0 => Len(body) = size

DiskCopy(files, aid, body, size) ==
    IF size > 0
    THEN IF DiskCopyOk(body, size)
         THEN MapPut(files, ActionIDToPath(aid), body)
         ELSE MapDelete(files, ActionIDToPath(aid))
    ELSE files

\* Disk.Put, os.WriteFile of the sidecar.
DiskWriteMeta(files, aid, oid, size, now) ==
    MapPut(files, MetadataPath(aid), FormatMeta(oid, size, now))

\* Disk.Get, os.Stat of the body file.
DiskStat(files, aid) == ActionIDToPath(aid) \in DOMAIN files

\* Disk.Get after the body file was found: read and parse the sidecar.
DiskGetMeta(files, aid) ==
    IF MetadataPath(aid) \notin DOMAIN files
    THEN [ZeroResult EXCEPT !.set = TRUE, !.miss = TRUE]
    ELSE LET lines       == files[MetadataPath(aid)]
             outputIDHex == ScanMeta(lines, "outputID", <<>>)
             size        == ScanMeta(lines, "size", 0)
             putTimeUnix == ScanMeta(lines, "time", 0)
         IN  IF ~IsHex(outputIDHex)
             THEN [ZeroResult EXCEPT !.set = TRUE, !.miss = TRUE]
             ELSE [ZeroResult EXCEPT !.set = TRUE,
                                     !.outputID = HexDecode(outputIDHex),
                                     !.diskPath = ActionIDToPath(aid),
                                     !.size = size,
                                     !.putTime = <<putTimeUnix>>]

GetMiss == [ZeroResult EXCEPT !.set = TRUE, !.miss = TRUE]

PutOk(aid) == [ZeroResult EXCEPT !.set = TRUE, !.diskPath = ActionIDToPath(aid)]

Failed(msg) == [ZeroResult EXCEPT !.set = TRUE, !.err = msg]

\* ------------------------------------------------------------ HandleRequest

\* Mutant: every command takes the single-flight path to the backend.
EveryCmdIsCacheCmd(cmd) == TRUE

IsCacheCmd(cmd) == cmd \in {"put", "get"}

\* Mutant: a key that also names the request, so no two requests share one.
KeyPerRequest(req) == SfKey(req.cmd, req.aid) \o <<req.id>>

\* Mutant: a key that also names the output a put carries.
KeyWithOutput(req) == SfKey(req.cmd, req.aid) \o req.payload.oid

\* Mutant: a key that names the command only, not the ActionID.
KeyPerCommand(req) == <<req.cmd, ":">>

\* The key HandleRequest passes to sfGroup.Do.
DedupKey(req) == SfKey(req.cmd, req.aid)

\* Mutant: the error of the backend is dropped from the response.
BuildResponseWithoutErr(req, res) ==
    LET base == [ZeroResponse EXCEPT !.ID = req.id]
    IN  IF req.cmd = "put"
        THEN [base EXCEPT !.DiskPath = res.diskPath]
        ELSE IF req.cmd = "get" /\ res.miss
        THEN [base EXCEPT !.Miss = TRUE]
        ELSE IF req.cmd = "get"
        THEN [base EXCEPT !.OutputID = res.outputID, !.DiskPath = res.diskPath,
                          !.Size = res.size, !.Time = res.putTime]
        ELSE [base EXCEPT !.Err = res.err]

\* The response HandleRequest builds from what sfGroup.Do returned.
BuildResponse(req, res) ==
    LET base == [ZeroResponse EXCEPT !.ID = req.id]
    IN  IF res.err # NoErr
        THEN [base EXCEPT !.Err = res.err, !.Miss = IsCacheCmd(req.cmd)]
        ELSE IF req.cmd = "put"
        THEN [base EXCEPT !.DiskPath = res.diskPath]
        ELSE IF req.cmd = "get" /\ res.miss
        THEN [base EXCEPT !.Miss = TRUE]
        ELSE IF req.cmd = "get"
        THEN [base EXCEPT !.OutputID = res.outputID, !.DiskPath = res.diskPath,
                          !.Size = res.size, !.Time = res.putTime]
        ELSE base

UnknownCommandErr(cmd) == <<"unknown command: ", cmd>>

\* ------------------------------------------------------------- SendResponse

JsonChunk(resp) == [kind |-> "json", obj |-> Marshal(resp)]

NewlineChunk == [kind |-> "nl"]

\* Mutant: SendResponse does not take the mutex.
NoWriterLock == TRUE

\* cp.writer.Lock(): the mutex can be taken when nobody holds it.
WriterLockFree == wmu = -1

\* The goroutine of Run after SendResponse failed: a non-blocking send on errChan.
ErrChanSend(ch) == IF ch = <<>> THEN <<"send">> ELSE ch

\* Mutant: the handshake leaves out the close command.
HandshakeWithoutClose ==
    [ZeroResponse EXCEPT !.ID = 0, !.KnownCommands = <<"put", "get">>]

\* The handshake SendInitialResponse sends.
InitialResponse ==
    [ZeroResponse EXCEPT !.ID = 0, !.KnownCommands = <<"put", "get", "close">>]

\* Mutant: a waiter's response carries the ID of the request that led its call.
ResponseOfCall(i) ==
    BuildResponse(reqs[IF hlead[i] = 0 THEN i ELSE hlead[i]], hres[i])

\* The response of request i, as the goroutine of Run sends it.
ResponseOf(i) == BuildResponse(reqs[i], hres[i])

\* Ghost: acked[A] is what the put to A answered last stored, when that
\* answer reported success and no put to A was read since.
AckedAfter(i) ==
    IF reqs[i].cmd = "put" /\ hres[i].err = NoErr
    THEN [acked EXCEPT ![reqs[i].aid] = reqs[i].payload]
    ELSE acked

\* --------------------------------------------------- the request handlers

\* The backend call of leader i returns res to sfGroup.Do.
Finish(i, res) ==
    /\ hres' = [hres EXCEPT ![i] = res]
    /\ hpc' = [hpc EXCEPT ![i] = "sfDone"]
    /\ UNCHANGED sfm

\* HandleRequest up to sfGroup.Do: an unknown command is answered at once; a
\* put or get joins the call in flight for its key or becomes its leader, and
\* the leader's backend call starts (the error-injecting backend may fail it).
HandleEnter(i) ==
    /\ hpc[i] = "start"
    /\ UNCHANGED <<runpc, runErr, reqs, wg, errChan, done, wmu, wbuf, werr, output,
                   fs, closeCalls, closeErr, acked, expect, stdin, s3get,
                   lockVars, cacheVars>>
    /\ \/ /\ ~IsCacheCmd(reqs[i].cmd)
          /\ hres' = [hres EXCEPT ![i] = Failed(UnknownCommandErr(reqs[i].cmd))]
          /\ hpc' = [hpc EXCEPT ![i] = "respond"]
          /\ UNCHANGED <<hlead, sfm, faults>>
       \/ /\ IsCacheCmd(reqs[i].cmd)
          /\ DedupKey(reqs[i]) \in DOMAIN sfm
          /\ hlead' = [hlead EXCEPT ![i] = sfm[DedupKey(reqs[i])]]
          /\ hpc' = [hpc EXCEPT ![i] = "wait"]
          /\ UNCHANGED <<hres, sfm, faults>>
       \/ /\ IsCacheCmd(reqs[i].cmd)
          /\ DedupKey(reqs[i]) \notin DOMAIN sfm
          /\ sfm' = MapPut(sfm, DedupKey(reqs[i]), i)
          /\ \E inject \in {FALSE, MayFail} :
                /\ faults' = IF inject THEN faults + 1 ELSE faults
                /\ hpc' = [hpc EXCEPT ![i] = IF inject THEN "injected"
                                             ELSE IF reqs[i].cmd = "put" THEN "putCreate"
                                             ELSE "getStat"]
          /\ UNCHANGED <<hlead, hres>>

\* Error.Put / Error.Get: the wrapped backend is not called, the error returns.
BackendInjected(i) ==
    /\ hpc[i] = "injected"
    /\ Finish(i, Failed(<<"error backend: simulated error: ", reqs[i].cmd>>))
    /\ UNCHANGED <<runpc, runErr, reqs, hlead, wg, errChan, done, wmu, wbuf, werr,
                   output, fs, closeCalls, closeErr, faults, acked, expect, stdin, s3get,
                   lockVars, cacheVars>>

\* Disk.Put: os.Create.
PutCreate(i) ==
    /\ hpc[i] = "putCreate"
    /\ fs' = DiskCreate(fs, reqs[i].aid)
    /\ hpc' = [hpc EXCEPT ![i] = "putCopy"]
    /\ UNCHANGED <<runpc, runErr, reqs, hlead, hres, sfm, wg, errChan, done, wmu, wbuf,
                   werr, output, closeCalls, closeErr, faults, acked, expect, stdin, s3get,
                   lockVars, cacheVars>>

\* Disk.Put: the body and the size check; a mismatch ends the call.
PutCopy(i) ==
    /\ hpc[i] = "putCopy"
    /\ fs' = DiskCopy(fs, reqs[i].aid, reqs[i].payload.body, reqs[i].payload.size)
    /\ \/ /\ DiskCopyOk(reqs[i].payload.body, reqs[i].payload.size)
          /\ hpc' = [hpc EXCEPT ![i] = "putMeta"]
          /\ UNCHANGED <<hres, sfm>>
       \/ /\ ~DiskCopyOk(reqs[i].payload.body, reqs[i].payload.size)
          /\ Finish(i, Failed(<<"size mismatch">>))
    /\ UNCHANGED <<runpc, runErr, reqs, hlead, wg, errChan, done, wmu, wbuf, werr,
                   output, closeCalls, closeErr, faults, acked, expect, stdin, s3get,
                   lockVars, cacheVars>>

\* Disk.Put: the sidecar, and the return to sfGroup.Do.
PutMeta(i) ==
    /\ hpc[i] = "putMeta"
    /\ fs' = DiskWriteMeta(fs, reqs[i].aid, reqs[i].payload.oid, reqs[i].payload.size, Now)
    /\ Finish(i, PutOk(reqs[i].aid))
    /\ UNCHANGED <<runpc, runErr, reqs, hlead, wg, errChan, done, wmu, wbuf, werr,
                   output, closeCalls, closeErr, faults, acked, expect, stdin, s3get,
                   lockVars, cacheVars>>

\* Disk.Get: os.Stat of the body file; its absence is a miss.
GetStat(i) ==
    /\ hpc[i] = "getStat"
    /\ \/ /\ DiskStat(fs, reqs[i].aid)
          /\ hpc' = [hpc EXCEPT ![i] = "getMeta"]
          /\ UNCHANGED <<hres, sfm>>
       \/ /\ ~DiskStat(fs, reqs[i].aid)
          /\ Finish(i, GetMiss)
    /\ UNCHANGED <<runpc, runErr, reqs, hlead, wg, errChan, done, wmu, wbuf, werr,
                   output, fs, closeCalls, closeErr, faults, acked, expect, stdin, s3get,
                   lockVars, cacheVars>>

\* Disk.Get: the sidecar is read and parsed, and the call returns.
GetMeta(i) ==
    /\ hpc[i] = "getMeta"
    /\ Finish(i, DiskGetMeta(fs, reqs[i].aid))
    /\ UNCHANGED <<runpc, runErr, reqs, hlead, wg, errChan, done, wmu, wbuf, werr,
                   output, fs, closeCalls, closeErr, faults, acked, expect, stdin, s3get,
                   lockVars, cacheVars>>

\* Whether request i is inside the backend call it leads.
Executing(i) ==
    hpc[i] \in {"injected", "putCreate", "putCopy", "putMeta", "getStat", "getMeta"}

\* Whether request i is inside sfGroup.Do.
InDo(i) == Executing(i) \/ hpc[i] \in {"sfDone", "wait"}

\* Whether request i invoked the backend: it led a call.
Invoked(i) == IsCacheCmd(reqs[i].cmd) /\ hlead[i] = 0 /\ hpc[i] \notin {"start", "inline"}

\* sfGroup.Do after the leader's function returned: the waiters are released
\* and the key leaves the map in one critical section; Do returns.
SfDone(i) ==
    /\ hpc[i] = "sfDone"
    /\ sfm' = MapDelete(sfm, DedupKey(reqs[i]))
    /\ hpc' = [hpc EXCEPT ![i] = "respond"]
    /\ UNCHANGED <<runpc, runErr, reqs, hlead, hres, wg, errChan, done, wmu, wbuf, werr,
                   output, fs, closeCalls, closeErr, faults, acked, expect, stdin, s3get,
                   lockVars, cacheVars>>

\* Whether the call request i led has released its waiters.
Released(i) == hres[i].set /\ hpc[i] # "sfDone"

\* sfGroup.Do returns to a waiter what the leader's call returned.
WaiterWake(i) ==
    /\ hpc[i] = "wait"
    /\ Released(hlead[i])
    /\ hres' = [hres EXCEPT ![i] = hres[hlead[i]]]
    /\ hpc' = [hpc EXCEPT ![i] = "respond"]
    /\ UNCHANGED <<runpc, runErr, reqs, hlead, sfm, wg, errChan, done, wmu, wbuf, werr,
                   output, fs, closeCalls, closeErr, faults, acked, expect, stdin, s3get,
                   lockVars, cacheVars>>

\* SendResponse: Lock and Write.  A writer that has failed refuses the write:
\* SendResponse returns the error, the goroutine reports it and is done.
SendWrite(i) ==
    /\ hpc[i] = "respond"
    /\ WriterLockFree
    /\ \/ /\ ~werr
          /\ wmu' = i
          /\ wbuf' = Append(wbuf, JsonChunk(ResponseOf(i)))
          /\ hpc' = [hpc EXCEPT ![i] = "nl"]
          /\ UNCHANGED <<errChan, wg>>
       \/ /\ werr
          /\ errChan' = ErrChanSend(errChan)
          /\ wg' = wg - 1
          /\ hpc' = [hpc EXCEPT ![i] = "done"]
          /\ UNCHANGED <<wmu, wbuf>>
    /\ UNCHANGED <<runpc, runErr, reqs, hlead, hres, sfm, done, werr, output, fs,
                   closeCalls, closeErr, faults, acked, expect, stdin, s3get,
                   lockVars, cacheVars>>

\* SendResponse: WriteByte('\n').
SendNewline(i) ==
    /\ hpc[i] = "nl"
    /\ wbuf' = Append(wbuf, NewlineChunk)
    /\ hpc' = [hpc EXCEPT ![i] = "flush"]
    /\ UNCHANGED <<runpc, runErr, reqs, hlead, hres, sfm, wg, errChan, done, wmu, werr,
                   output, fs, closeCalls, closeErr, faults, acked, expect, stdin, s3get,
                   lockVars, cacheVars>>

\* SendResponse: Flush and Unlock; then the goroutine reports a failure on
\* errChan and calls wg.Done.  A failed flush writes nothing and sticks.
SendFlush(i) ==
    /\ hpc[i] = "flush"
    /\ wmu' = -1
    /\ wg' = wg - 1
    /\ hpc' = [hpc EXCEPT ![i] = "done"]
    /\ \/ /\ output' = output \o wbuf
          /\ wbuf' = <<>>
          /\ acked' = AckedAfter(i)
          /\ UNCHANGED <<werr, errChan, faults>>
       \/ /\ MayFail
          /\ faults' = faults + 1
          /\ werr' = TRUE
          /\ errChan' = ErrChanSend(errChan)
          /\ UNCHANGED <<output, wbuf, acked>>
    /\ UNCHANGED <<runpc, runErr, reqs, hlead, hres, sfm, done, fs, closeCalls,
                   closeErr, expect, stdin, s3get,
                   lockVars, cacheVars>>

\* ---------------------------------------------------------------------- Run

Return(err) ==
    /\ runpc' = "returned"
    /\ runErr' = err

\* Run: SendInitialResponse, Lock and Write.
RunInitWrite ==
    /\ runpc = "init"
    /\ WriterLockFree
    /\ wmu' = 0
    /\ wbuf' = Append(wbuf, JsonChunk(InitialResponse))
    /\ runpc' = "initNl"
    /\ UNCHANGED <<runErr, reqs, hpc, hlead, hres, sfm, wg, errChan, done, werr, output,
                   fs, closeCalls, closeErr, faults, acked, expect, stdin, s3get,
                   lockVars, cacheVars>>

\* Run: SendInitialResponse, WriteByte('\n').
RunInitNewline ==
    /\ runpc = "initNl"
    /\ wbuf' = Append(wbuf, NewlineChunk)
    /\ runpc' = "initFlush"
    /\ UNCHANGED <<runErr, reqs, hpc, hlead, hres, sfm, wg, errChan, done, wmu, werr,
                   output, fs, closeCalls, closeErr, faults, acked, expect, stdin, s3get,
                   lockVars, cacheVars>>

\* Run: SendInitialResponse, Flush and Unlock; a failure ends Run.
RunInitFlush ==
    /\ runpc = "initFlush"
    /\ wmu' = -1
    /\ \/ /\ output' = output \o wbuf
          /\ wbuf' = <<>>
          /\ runpc' = "read"
          /\ UNCHANGED <<werr, runErr, faults>>
       \/ /\ MayFail
          /\ faults' = faults + 1
          /\ werr' = TRUE
          /\ Return("failed to send initial response")
          /\ UNCHANGED <<output, wbuf>>
    /\ UNCHANGED <<reqs, hpc, hlead, hres, sfm, wg, errChan, done, fs, closeCalls,
                   closeErr, acked, expect, stdin, s3get,
                   lockVars, cacheVars>>

\* Whether a put to A has been read and not yet answered.
PutPending(aid) ==
    \E j \in Requests : reqs[j].cmd = "put" /\ reqs[j].aid = aid /\ hpc[j] # "done"

\* Run: the request is handed to a goroutine of its own.
Dispatch(req) ==
    /\ Len(reqs) < MaxReq
    /\ wg < MaxInFlight
    /\ reqs' = Append(reqs, req)
    /\ hpc' = Append(hpc, "start")
    /\ hlead' = Append(hlead, 0)
    /\ hres' = Append(hres, ZeroResult)
    /\ wg' = wg + 1
    /\ runpc' = "select"
    /\ acked' = IF req.cmd = "put" THEN [acked EXCEPT ![req.aid] = NoPayload] ELSE acked
    /\ expect' =
          IF req.cmd = "get"
          THEN Append(expect, IF PutPending(req.aid) THEN NoPayload ELSE acked[req.aid])
          ELSE IF req.cmd = "put"
          THEN Append([j \in Requests |->
                          IF reqs[j].cmd = "get" /\ reqs[j].aid = req.aid /\ hpc[j] # "done"
                          THEN NoPayload ELSE expect[j]], NoPayload)
          ELSE Append(expect, NoPayload)
    /\ UNCHANGED <<runErr, stdin>>

\* The ways the input can hold no further complete request: it ends at a
\* request boundary; it ends after the header line of a put with BodySize > 0;
\* a request line is not JSON; the body line of a put is not a JSON string
\* of valid base64.
InputEnds == {"eof", "eofInPut", "badLine", "badBody"}

\* Mutant: every failure of ReadRequest is taken for the end of the input.
ReadRequestAlwaysEOF(end) == "EOF"

\* What ReadRequest returns then: io.EOF when readLine meets the end of the
\* input, for the request line and for the body line alike; an error when a
\* line does not parse.
ReadRequestErr(end) ==
    IF end \in {"eof", "eofInPut"} THEN "EOF" ELSE "failed to read request"

\* Run: ReadRequest and what the loop does with its result.  The peer sends a
\* request with the next ID, or the input holds no further complete request.
RunRead ==
    /\ runpc = "read"
    /\ UNCHANGED <<sfm, errChan, done, wmu, wbuf, werr, output, fs, closeCalls,
                   closeErr, faults, s3get, lockVars, cacheVars>>
    /\ \/ \E put \in PutInputs :
             Dispatch([id |-> Len(reqs) + 1, cmd |-> "put", aid |-> put[1],
                       payload |-> put[2]])
       \/ \E aid \in ActionIDs :
             Dispatch([id |-> Len(reqs) + 1, cmd |-> "get", aid |-> aid,
                       payload |-> NoPayload])
       \/ \E c \in UnknownCmds :
             Dispatch([id |-> Len(reqs) + 1, cmd |-> c, aid |-> <<>>,
                       payload |-> NoPayload])
       \/ /\ Len(reqs) < MaxReq
          /\ reqs' = Append(reqs, [id |-> Len(reqs) + 1, cmd |-> "close", aid |-> <<>>,
                                   payload |-> NoPayload])
          /\ hpc' = Append(hpc, "inline")
          /\ hlead' = Append(hlead, 0)
          /\ hres' = Append(hres, ZeroResult)
          /\ expect' = Append(expect, NoPayload)
          /\ runpc' = "closeWait"
          /\ UNCHANGED <<wg, runErr, acked, stdin>>
       \/ \E end \in InputEnds :
             /\ stdin' = end
             /\ IF ReadRequestErr(end) = "EOF"
                THEN runpc' = "final" /\ UNCHANGED runErr
                ELSE runpc' = "errWait" /\ runErr' = ReadRequestErr(end)
             /\ UNCHANGED <<reqs, hpc, hlead, hres, wg, acked, expect>>

\* Run: the non-blocking look at errChan after a request was dispatched.
RunSelect ==
    /\ runpc = "select"
    /\ \/ /\ errChan # <<>>
          /\ errChan' = <<>>
          /\ runpc' = "errWait"
          /\ runErr' = "failed to send response"
       \/ /\ errChan = <<>>
          /\ runpc' = "read"
          /\ UNCHANGED <<errChan, runErr>>
    /\ UNCHANGED <<reqs, hpc, hlead, hres, sfm, wg, done, wmu, wbuf, werr, output, fs,
                   closeCalls, closeErr, faults, acked, expect, stdin, s3get,
                   lockVars, cacheVars>>

\* Mutant: an error is returned while handlers are still running.
ErrorAtOnce == TRUE

\* wg.Wait() as Run calls it before it returns an error.
ErrDrained == wg = 0

\* Run: wg.Wait() before an error is returned.
RunErrWait ==
    /\ runpc = "errWait"
    /\ ErrDrained
    /\ runpc' = "returned"
    /\ UNCHANGED <<runErr, reqs, hpc, hlead, hres, sfm, wg, errChan, done, wmu, wbuf,
                   werr, output, fs, closeCalls, closeErr, faults, acked, expect, stdin, s3get,
                   lockVars, cacheVars>>

\* Mutant: close is handled without waiting for the handlers.
NoDrain == TRUE

\* Mutant: the wait ends while one handler is still running.
DrainToOne == wg <= 1

\* wg.Wait() as Run calls it before it handles close.
Drained == wg = 0

\* Run, close: wg.Wait(), HandleRequest (Backend.Close, which the
\* error-injecting backend may fail), then SendResponse: Lock and Write.
RunClose ==
    /\ runpc = "closeWait"
    /\ Drained
    /\ WriterLockFree
    /\ closeCalls' = closeCalls + 1
    /\ \E inject \in {FALSE, MayFail} :
       LET e == IF inject THEN <<"error backend: simulated error: ", "close">> ELSE NoErr
       IN /\ closeErr' = e
          /\ faults' = IF inject THEN faults + 1 ELSE faults
          /\ hres' = [hres EXCEPT ![Len(reqs)] = Failed(e)]
          /\ \/ /\ ~werr
                /\ wmu' = 0
                /\ wbuf' = Append(wbuf, JsonChunk(BuildResponse(reqs[Len(reqs)], Failed(e))))
                /\ runpc' = "closeNl"
                /\ UNCHANGED runErr
             \/ /\ werr
                /\ Return("failed to send close response")
                /\ UNCHANGED <<wmu, wbuf>>
    /\ UNCHANGED <<reqs, hpc, hlead, sfm, wg, errChan, done, werr, output, fs, acked,
                   expect, stdin, s3get,
                   lockVars, cacheVars>>

\* Run, close: SendResponse, WriteByte('\n').
RunCloseNewline ==
    /\ runpc = "closeNl"
    /\ wbuf' = Append(wbuf, NewlineChunk)
    /\ runpc' = "closeFlush"
    /\ UNCHANGED <<runErr, reqs, hpc, hlead, hres, sfm, wg, errChan, done, wmu, werr,
                   output, fs, closeCalls, closeErr, faults, acked, expect, stdin, s3get,
                   lockVars, cacheVars>>

\* Run, close: SendResponse, Flush and Unlock; then the loop ends.
RunCloseFlush ==
    /\ runpc = "closeFlush"
    /\ wmu' = -1
    /\ \/ /\ output' = output \o wbuf
          /\ wbuf' = <<>>
          /\ runpc' = "final"
          /\ hpc' = [hpc EXCEPT ![Len(reqs)] = "done"]
          /\ UNCHANGED <<werr, runErr, faults>>
       \/ /\ MayFail
          /\ faults' = faults + 1
          /\ werr' = TRUE
          /\ Return("failed to send close response")
          /\ UNCHANGED <<output, wbuf, hpc>>
    /\ UNCHANGED <<reqs, hlead, hres, sfm, wg, errChan, done, fs, closeCalls, closeErr,
                   acked, expect, stdin, s3get,
                   lockVars, cacheVars>>

\* Mutant: done is closed without waiting for the handlers.
DoneAtOnce == TRUE

\* wg.Wait() in the goroutine Run starts after the loop.
HandlersDone == wg = 0

\* The goroutine Run starts after the loop: wg.Wait(), close(done).
CloseDone ==
    /\ runpc = "final"
    /\ ~done
    /\ HandlersDone
    /\ done' = TRUE
    /\ UNCHANGED <<runpc, runErr, reqs, hpc, hlead, hres, sfm, wg, errChan, wmu, wbuf,
                   werr, output, fs, closeCalls, closeErr, faults, acked, expect, stdin, s3get,
                   lockVars, cacheVars>>

\* Run after the loop: select on done and errChan (either, when both are ready).
RunFinal ==
    /\ runpc = "final"
    /\ \/ /\ done
          /\ Return("nil")
          /\ UNCHANGED errChan
       \/ /\ errChan # <<>>
          /\ errChan' = <<>>
          /\ runpc' = "errWait"
          /\ runErr' = "failed to send response"
    /\ UNCHANGED <<reqs, hpc, hlead, hres, sfm, wg, done, wmu, wbuf, werr, output, fs,
                   closeCalls, closeErr, faults, acked, expect, stdin, s3get,
                   lockVars, cacheVars>>

\* ------------------------------------------------------------ specification

\* A directory an earlier run or another tool left behind: for one ActionID
\* a body file and a sidecar that has the size and time lines but no
\* outputID line.
StaleDir ==
    MapPut(MapPut(EmptyMap, ActionIDToPath(<<171>>), <<7>>),
           MetadataPath(<<171>>), << <<"size", 1>>, <<"time", 1>> >>)

\* NewDisk: os.MkdirAll creates the directory when it is absent and keeps
\* whatever it holds otherwise.
InitialDirs == {EmptyMap, StaleDir}

\* NewCacheProg on an empty cache directory.
BrokerInit ==
    /\ runpc = "init"
    /\ runErr = "running"
    /\ reqs = <<>>
    /\ hpc = <<>>
    /\ hlead = <<>>
    /\ hres = <<>>
    /\ sfm = EmptyMap
    /\ wg = 0
    /\ errChan = <<>>
    /\ done = FALSE
    /\ wmu = -1
    /\ wbuf = <<>>
    /\ werr = FALSE
    /\ output = <<>>
    /\ fs \in InitialDirs
    /\ closeCalls = 0
    /\ closeErr = NoErr
    /\ faults = 0
    /\ stdin = "open"
    /\ s3get = EmptyMap
    /\ acked = [a \in ActionIDs |-> NoPayload]
    /\ expect = <<>>

LockIdle ==
    /\ lpc = <<>>
    /\ lgrp = <<>>
    /\ lkey = <<>>
    /\ lcalls = <<>>
    /\ lprobes = <<>>
    /\ flocks = EmptyMap
    /\ gcalls = <<>>
    /\ lwait = <<>>
    /\ lret = <<>>
    /\ gresults = <<>>

\* CacheSpec is idle: nothing has operated on a directory.
\* MemSpec is idle: no MemLock exists.
MemIdle ==
    /\ mpc = <<>>
    /\ mkey = <<>>
    /\ mmu = 0
    /\ mlocks = <<>>
    /\ mruns = <<>>

\* RetrySpec is idle: HandleRequestWithRetries is not called.
RetryIdle ==
    /\ rtpc = "none"
    /\ rtreq = <<>>
    /\ rtn = 0
    /\ rtattempt = 0
    /\ rtreader = <<>>
    /\ rtpassed = <<>>
    /\ rterr = NoErr

CacheIdle ==
    /\ lcroot = TRUE
    /\ lcfiles = EmptyMap
    /\ lcsub = FALSE
    /\ lcret = [op |-> "none"]
    /\ rdin = <<>>
    /\ rdout = <<>>
    /\ MemIdle
    /\ RetryIdle

Init == BrokerInit /\ LockIdle /\ CacheIdle

Next ==
    \/ RunInitWrite
    \/ RunInitNewline
    \/ RunInitFlush
    \/ RunRead
    \/ RunSelect
    \/ RunErrWait
    \/ RunClose
    \/ RunCloseNewline
    \/ RunCloseFlush
    \/ CloseDone
    \/ RunFinal
    \/ \E i \in Requests :
          \/ HandleEnter(i)
          \/ BackendInjected(i)
          \/ PutCreate(i)
          \/ PutCopy(i)
          \/ PutMeta(i)
          \/ GetStat(i)
          \/ GetMeta(i)
          \/ SfDone(i)
          \/ WaiterWake(i)
          \/ SendWrite(i)
          \/ SendNewline(i)
          \/ SendFlush(i)

Spec == Init /\ [][Next]_vars

(***************************************************************************)
(* ServerSpec: the server process.  runServer creates the backend, defers  *)
(* its Close, runs the broker and leaves: by returning when Run returned   *)
(* nil, which runs the deferred call, or through os.Exit(1) when Run       *)
(* returned an error, which runs no deferred call.                         *)
(***************************************************************************)

RunServerExit ==
    /\ runpc = "returned"
    /\ runpc' = "exited"
    /\ closeCalls' = IF runErr = "nil" THEN closeCalls + 1 ELSE closeCalls
    /\ UNCHANGED <<runErr, reqs, hpc, hlead, hres, sfm, wg, errChan, done, wmu, wbuf,
                   werr, output, fs, closeErr, faults, acked, expect, stdin, s3get,
                   lockVars, cacheVars>>

ServerInit == Init /\ fs = EmptyMap

ServerNext == Next \/ RunServerExit

ServerSpec == ServerInit /\ [][ServerNext]_vars

(***************************************************************************)
(* S3Spec: the same broker over the S3 backend.  The bucket and the local  *)
(* directory share the map fs: the keys ActionIDToKey gives are objects of *)
(* the bucket, the paths ActionIDToLocalPath gives are local files.        *)
(***************************************************************************)

\* S3Backend.actionIDToKey and S3Backend.actionIDToLocalPath.
ActionIDToKey(aid) == <<"s3://bucket/">> \o HexEncode(aid)

ActionIDToLocalPath(aid) == <<"/tmp/gobuildcache-s3/">> \o HexEncode(aid)

\* S3Backend.Put, io.ReadFull into a buffer of bodySize bytes: the error it
\* returns (NoErr when the buffer was filled or bodySize is 0).
S3ReadBodyErr(body, size) ==
    IF size <= 0 \/ Len(body) >= size THEN NoErr
    ELSE IF body = <<>> THEN <<"size mismatch">>
    ELSE <<"failed to read body">>

\* bodyData: nil when bodySize is 0, else the first bodySize bytes.
S3BodyData(body, size) == IF size > 0 THEN SubSeq(body, 1, size) ELSE <<>>

\* The object PutObject stores: the metadata map and the body.
S3Object(oid, bodyData, size, now) ==
    << << <<"outputid", HexEncode(oid)>>, <<"size", size>>, <<"time", now>> >>,
       bodyData >>

\* S3Backend.Get: what it builds from the metadata HeadObject returned.
S3HeadResult(obj) ==
    LET outputIDHex == ScanMeta(obj[1], "outputid", <<>>)
    IN  IF ~IsHex(outputIDHex)
        THEN GetMiss
        ELSE [ZeroResult EXCEPT !.outputID = HexDecode(outputIDHex),
                                !.size = ScanMeta(obj[1], "size", 0),
                                !.putTime = <<ScanMeta(obj[1], "time", 0)>>]

\* S3Backend.Put up to PutObject: the body is read, then uploaded.
S3PutObject(i) ==
    /\ hpc[i] = "putCreate"
    /\ LET p == reqs[i].payload
       IN  \/ /\ S3ReadBodyErr(p.body, p.size) # NoErr
              /\ Finish(i, Failed(S3ReadBodyErr(p.body, p.size)))
              /\ UNCHANGED <<fs, faults>>
           \/ /\ S3ReadBodyErr(p.body, p.size) = NoErr
              /\ MayFail
              /\ faults' = faults + 1
              /\ Finish(i, Failed(<<"failed to upload to S3">>))
              /\ UNCHANGED fs
           \/ /\ S3ReadBodyErr(p.body, p.size) = NoErr
              /\ fs' = MapPut(fs, ActionIDToKey(reqs[i].aid),
                              S3Object(p.oid, S3BodyData(p.body, p.size), p.size, Now))
              /\ hpc' = [hpc EXCEPT ![i] = "s3WriteOpen"]
              /\ UNCHANGED <<hres, sfm, faults>>
    /\ UNCHANGED s3get
    /\ UNCHANGED <<runpc, runErr, reqs, hlead, wg, errChan, done, wmu, wbuf, werr,
                   output, closeCalls, closeErr, acked, expect, stdin, lockVars, cacheVars>>

\* S3Backend.Put, os.WriteFile of the local copy: the file is opened with
\* O_CREATE|O_TRUNC ...
S3WriteOpen(i) ==
    /\ hpc[i] = "s3WriteOpen"
    /\ fs' = MapPut(fs, ActionIDToLocalPath(reqs[i].aid), <<>>)
    /\ hpc' = [hpc EXCEPT ![i] = "s3WriteData"]
    /\ UNCHANGED <<hres, sfm, faults, s3get>>
    /\ UNCHANGED <<runpc, runErr, reqs, hlead, wg, errChan, done, wmu, wbuf, werr,
                   output, closeCalls, closeErr, acked, expect, stdin, lockVars, cacheVars>>

\* ... and bodyData is written to it; Put returns the local path.
S3WriteData(i) ==
    /\ hpc[i] = "s3WriteData"
    /\ fs' = MapPut(fs, ActionIDToLocalPath(reqs[i].aid),
                    S3BodyData(reqs[i].payload.body, reqs[i].payload.size))
    /\ Finish(i, [ZeroResult EXCEPT !.set = TRUE,
                                    !.diskPath = ActionIDToLocalPath(reqs[i].aid)])
    /\ UNCHANGED <<faults, s3get>>
    /\ UNCHANGED <<runpc, runErr, reqs, hlead, wg, errChan, done, wmu, wbuf, werr,
                   output, closeCalls, closeErr, acked, expect, stdin, lockVars, cacheVars>>

\* S3Backend.Get, HeadObject: no object is a miss, another failure an error;
\* the metadata found is kept in the result under construction.
S3HeadObject(i) ==
    /\ hpc[i] = "getStat"
    /\ \/ /\ ActionIDToKey(reqs[i].aid) \notin DOMAIN fs
          /\ Finish(i, GetMiss)
          /\ UNCHANGED faults
       \/ /\ MayFail
          /\ faults' = faults + 1
          /\ Finish(i, [Failed(<<"failed to check S3 object">>) EXCEPT !.miss = TRUE])
       \/ /\ ActionIDToKey(reqs[i].aid) \in DOMAIN fs
          /\ S3HeadResult(fs[ActionIDToKey(reqs[i].aid)]).miss
          /\ Finish(i, GetMiss)
          /\ UNCHANGED faults
       \/ /\ ActionIDToKey(reqs[i].aid) \in DOMAIN fs
          /\ ~S3HeadResult(fs[ActionIDToKey(reqs[i].aid)]).miss
          /\ hres' = [hres EXCEPT ![i] = S3HeadResult(fs[ActionIDToKey(reqs[i].aid)])]
          /\ hpc' = [hpc EXCEPT ![i] = "s3Stat"]
          /\ UNCHANGED <<sfm, faults>>
    /\ UNCHANGED <<fs, s3get>>
    /\ UNCHANGED <<runpc, runErr, reqs, hlead, wg, errChan, done, wmu, wbuf, werr,
                   output, closeCalls, closeErr, acked, expect, stdin, lockVars, cacheVars>>

\* S3Backend.Get, os.Stat of the local copy: present, Get returns the hit;
\* absent, it goes on to downloadFromS3.
S3Stat(i) ==
    /\ hpc[i] = "s3Stat"
    /\ \/ /\ ActionIDToLocalPath(reqs[i].aid) \in DOMAIN fs
          /\ Finish(i, [hres[i] EXCEPT !.set = TRUE,
                                       !.diskPath = ActionIDToLocalPath(reqs[i].aid)])
       \/ /\ ActionIDToLocalPath(reqs[i].aid) \notin DOMAIN fs
          /\ hpc' = [hpc EXCEPT ![i] = "s3GetObject"]
          /\ UNCHANGED <<hres, sfm>>
    /\ UNCHANGED <<fs, faults, s3get>>
    /\ UNCHANGED <<runpc, runErr, reqs, hlead, wg, errChan, done, wmu, wbuf, werr,
                   output, closeCalls, closeErr, acked, expect, stdin, lockVars, cacheVars>>

\* downloadFromS3, GetObject: the response streams the body the object has now.
S3GetObject(i) ==
    /\ hpc[i] = "s3GetObject"
    /\ \/ /\ \/ ActionIDToKey(reqs[i].aid) \notin DOMAIN fs /\ UNCHANGED faults
             \/ MayFail /\ faults' = faults + 1
          /\ Finish(i, [Failed(<<"failed to download from S3">>) EXCEPT !.miss = TRUE])
          /\ UNCHANGED s3get
       \/ /\ ActionIDToKey(reqs[i].aid) \in DOMAIN fs
          /\ s3get' = MapPut(s3get, i, fs[ActionIDToKey(reqs[i].aid)][2])
          /\ hpc' = [hpc EXCEPT ![i] = "s3Create"]
          /\ UNCHANGED <<hres, sfm, faults>>
    /\ UNCHANGED fs
    /\ UNCHANGED <<runpc, runErr, reqs, hlead, wg, errChan, done, wmu, wbuf, werr,
                   output, closeCalls, closeErr, acked, expect, stdin, lockVars, cacheVars>>

\* downloadFromS3, os.Create of the local file.
S3Create(i) ==
    /\ hpc[i] = "s3Create"
    /\ fs' = MapPut(fs, ActionIDToLocalPath(reqs[i].aid), <<>>)
    /\ hpc' = [hpc EXCEPT ![i] = "s3Copy"]
    /\ UNCHANGED <<hres, sfm, faults, s3get>>
    /\ UNCHANGED <<runpc, runErr, reqs, hlead, wg, errChan, done, wmu, wbuf, werr,
                   output, closeCalls, closeErr, acked, expect, stdin, lockVars, cacheVars>>

\* downloadFromS3, io.Copy and the deferred Close of the response; Get
\* returns the hit.
S3Copy(i) ==
    /\ hpc[i] = "s3Copy"
    /\ fs' = MapPut(fs, ActionIDToLocalPath(reqs[i].aid), s3get[i])
    /\ s3get' = MapDelete(s3get, i)
    /\ Finish(i, [hres[i] EXCEPT !.set = TRUE,
                                 !.diskPath = ActionIDToLocalPath(reqs[i].aid)])
    /\ UNCHANGED faults
    /\ UNCHANGED <<runpc, runErr, reqs, hlead, wg, errChan, done, wmu, wbuf, werr,
                   output, closeCalls, closeErr, acked, expect, stdin, lockVars, cacheVars>>

\* NewS3Backend: an empty bucket and an empty local directory.
S3Init == BrokerInit /\ LockIdle /\ CacheIdle /\ fs = EmptyMap

S3Next ==
    \/ RunInitWrite
    \/ RunInitNewline
    \/ RunInitFlush
    \/ RunRead
    \/ RunSelect
    \/ RunErrWait
    \/ RunClose
    \/ RunCloseNewline
    \/ RunCloseFlush
    \/ CloseDone
    \/ RunFinal
    \/ \E i \in Requests :
          \/ HandleEnter(i)
          \/ BackendInjected(i)
          \/ S3PutObject(i)
          \/ S3WriteOpen(i)
          \/ S3WriteData(i)
          \/ S3HeadObject(i)
          \/ S3Stat(i)
          \/ S3GetObject(i)
          \/ S3Create(i)
          \/ S3Copy(i)
          \/ SfDone(i)
          \/ WaiterWake(i)
          \/ SendWrite(i)
          \/ SendNewline(i)
          \/ SendFlush(i)

S3Spec == S3Init /\ [][S3Next]_vars

(***************************************************************************)
(* StuckSpec: the broker of Spec in an environment without faults, where   *)
(* every goroutine keeps running except that the backend call of the first *)
(* request may never return.                                               *)
(***************************************************************************)

\* The steps inside the backend call request i leads.
BackendStep(i) ==
    \/ BackendInjected(i)
    \/ PutCreate(i)
    \/ PutCopy(i)
    \/ PutMeta(i)
    \/ GetStat(i)
    \/ GetMeta(i)

\* Every step but those of the backend call of the first request.
OtherSteps ==
    \/ Next /\ \A i \in Requests : ~BackendStep(i)
    \/ \E i \in Requests \ {1} : BackendStep(i)

StuckInit == Init /\ fs = EmptyMap

StuckNext == Next /\ faults' = faults

StuckSpec == StuckInit /\ [][StuckNext]_vars /\ WF_vars(OtherSteps /\ faults' = faults)

(***************************************************************************)
(* CacheSpec: one caller operating on a cache root directory with the      *)
(* LocalCache operations, clearLocalCache and Disk.Clear.  The directory   *)
(* starts in any of the states of InitialCacheDirs.                        *)
(***************************************************************************)

\* LocalCache.actionIDToPath and LocalCache.metadataPath, as names in the
\* cache root, and the temporary name writeMetadata uses.
LcBody(aid) == HexEncode(aid)

LcMeta(aid) == HexEncode(aid) \o <<".meta">>

LcMetaTmp(aid) == LcMeta(aid) \o <<".tmp">>

\* A nil *localCacheMetadata; metadata is <<OutputID, Size, PutTime>>.
NoMeta == <<>>

\* LocalCache.readMetadata: NoMeta when it returns an error.
ReadMetadata(files, aid) ==
    IF LcMeta(aid) \notin DOMAIN files THEN NoMeta
    ELSE LET lines       == files[LcMeta(aid)]
             outputIDHex == ScanMeta(lines, "outputID", <<>>)
         IN  IF outputIDHex = <<>> THEN NoMeta
             ELSE IF ~IsHex(outputIDHex) THEN NoMeta
             ELSE <<HexDecode(outputIDHex), ScanMeta(lines, "size", 0),
                    ScanMeta(lines, "time", 0)>>

\* LocalCache.Check: os.Stat of the body file, then readMetadata.
Check(files, aid) ==
    IF LcBody(aid) \notin DOMAIN files THEN NoMeta ELSE ReadMetadata(files, aid)

\* What an operation leaves in lcret.
OpResult(op, aid, err, meta, metaErr) ==
    [op |-> op, aid |-> aid, err |-> err, meta |-> meta, metaErr |-> metaErr]

NoOp == OpResult("none", <<>>, NoErr, NoMeta, FALSE)

\* The sidecars a directory may hold at the start: complete, lacking one of
\* the three lines, with an outputID that is not hex, and empty.
InitialSidecars ==
    { FormatMeta(<<1>>, 1, Now),
      << <<"size", 1>>, <<"time", Now>> >>,
      << <<"outputID", HexEncode(<<1>>)>>, <<"time", Now>> >>,
      << <<"outputID", HexEncode(<<1>>)>>, <<"size", 1>> >>,
      << <<"outputID", <<"z", "z">>>>, <<"size", 1>>, <<"time", Now>> >>,
      <<>> }

\* The files a root may hold at the start: for every ActionID a body file
\* or none, and one of the sidecars or none.
InitialCacheDirs ==
    { [name \in { LcBody(x) : x \in { y \in ActionIDs : ch[y][1] # <<>> } }
                \cup { LcMeta(x) : x \in { y \in ActionIDs : ch[y][2] # <<>> } } |->
          LET x == CHOOSE y \in ActionIDs : name \in {LcBody(y), LcMeta(y)}
          IN  IF name = LcBody(x) THEN ch[x][1][1] ELSE ch[x][2][1]] :
      ch \in [ActionIDs -> {<<>>, << <<7>> >>}
                           \X ({<<>>} \cup { <<m>> : m \in InitialSidecars })] }

\* LocalCache.Check.
LcCheck ==
    /\ \E aid \in ActionIDs :
          lcret' = OpResult("Check", aid, NoErr, Check(lcfiles, aid), FALSE)
    /\ UNCHANGED <<lcroot, lcfiles, lcsub>>
    /\ UNCHANGED <<brokerVars, lockVars, readVars, memVars, retryVars>>

\* LocalCache.WriteWithMetadata: Write (temporary file, rename) fails and
\* returns its error, or succeeds; then writeMetadata (temporary file,
\* rename) succeeds, or fails in os.WriteFile (the temporary sidecar may
\* stay behind, empty) or in os.Rename (it is removed), which is only logged.
LcWriteWithMetadata ==
    /\ \E aid \in ActionIDs : \E oid \in {<<2>>} : \E body \in {<<8, 9>>} :
          \/ /\ lcret' = OpResult("WriteWithMetadata", aid,
                                  <<"failed to create temp file">>, NoMeta, FALSE)
             /\ UNCHANGED lcfiles
          \/ /\ lcroot
             /\ lcret' = OpResult("WriteWithMetadata", aid, NoErr, NoMeta, FALSE)
             /\ lcfiles' = MapPut(MapPut(lcfiles, LcBody(aid), body), LcMeta(aid),
                                  FormatMeta(oid, Len(body), Now))
          \/ /\ lcroot
             /\ lcret' = OpResult("WriteWithMetadata", aid, NoErr, NoMeta, TRUE)
             /\ \/ lcfiles' = MapPut(MapPut(lcfiles, LcBody(aid), body),
                                     LcMetaTmp(aid), <<>>)
                \/ lcfiles' = MapDelete(MapPut(lcfiles, LcBody(aid), body),
                                        LcMetaTmp(aid))
    /\ UNCHANGED <<lcroot, lcsub>>
    /\ UNCHANGED <<brokerVars, lockVars, readVars, memVars, retryVars>>

\* clearLocalCache: os.RemoveAll, then os.MkdirAll.
ClearLocalCache ==
    /\ lcroot' = TRUE
    /\ lcfiles' = EmptyMap
    /\ lcsub' = FALSE
    /\ lcret' = OpResult("clearLocalCache", <<>>, NoErr, NoMeta, FALSE)
    /\ UNCHANGED <<brokerVars, lockVars, readVars, memVars, retryVars>>

\* Disk.Clear: no root, nothing to do; else os.Remove of every entry in the
\* order os.ReadDir gives (the subdirectory's name sorts last), and
\* os.Remove of a directory that is not empty fails.
DiskClear ==
    /\ \/ /\ ~lcroot
          /\ lcret' = OpResult("Disk.Clear", <<>>, NoErr, NoMeta, FALSE)
          /\ UNCHANGED lcfiles
       \/ /\ lcroot
          /\ lcfiles' = EmptyMap
          /\ lcret' = OpResult("Disk.Clear", <<>>,
                               IF lcsub THEN <<"failed to remove">> ELSE NoErr,
                               NoMeta, FALSE)
    /\ UNCHANGED <<lcroot, lcsub>>
    /\ UNCHANGED <<brokerVars, lockVars, readVars, memVars, retryVars>>

\* A root that exists and holds one of InitialCacheDirs, with or without a
\* subdirectory, or no root at all.
CacheInit ==
    /\ BrokerInit
    /\ fs = EmptyMap
    /\ LockIdle
    /\ lcret = NoOp
    /\ rdin = <<>>
    /\ rdout = <<>>
    /\ MemIdle
    /\ RetryIdle
    /\ \/ lcroot = TRUE /\ lcfiles \in InitialCacheDirs /\ lcsub \in BOOLEAN
       \/ lcroot = FALSE /\ lcfiles = EmptyMap /\ lcsub = FALSE

CacheNext ==
    \/ LcCheck
    \/ LcWriteWithMetadata
    \/ ClearLocalCache
    \/ DiskClear

CacheSpec == CacheInit /\ [][CacheNext]_vars

(***************************************************************************)
(* ReadSpec: ReadRequest called on an input of newline-terminated lines    *)
(* until it returns an error.  A line is empty (<<>>), a JSON object that  *)
(* decodes into a Request (<<"req", command, bodySize>>) or a JSON string  *)
(* holding base64 (<<"str", bytes>>).                                      *)
(***************************************************************************)

InputLines ==
    { <<>>, <<"req", "put", 0>>, <<"req", "put", 1>>, <<"req", "get", 0>>,
      <<"str", <<7>>>> }

\* All inputs of at most n lines.
RECURSIVE InputsUpTo(_)
InputsUpTo(n) ==
    IF n = 0 THEN { <<>> }
    ELSE InputsUpTo(n - 1)
         \cup { Append(in, l) : in \in { x \in InputsUpTo(n - 1) : Len(x) = n - 1 },
                                l \in InputLines }

\* readLine: the first line that is not empty and the lines after it, or
\* <<>> at the end of the input.
RECURSIVE ReadLine(_)
ReadLine(lines) ==
    IF lines = <<>> THEN <<>>
    ELSE IF Head(lines) = <<>> THEN ReadLine(Tail(lines))
    ELSE <<Head(lines), Tail(lines)>>

\* What a call of ReadRequest returns, and the input it leaves.
ReadResult(err, cmd, size, body, rest) ==
    [err |-> err, cmd |-> cmd, size |-> size, body |-> body, rest |-> rest]

\* CacheProg.ReadRequest.
ReadRequest(lines) ==
    LET l1 == ReadLine(lines)
    IN  IF l1 = <<>> THEN ReadResult("EOF", "", 0, <<>>, <<>>)
        ELSE IF l1[1][1] # "req"
        THEN ReadResult("failed to unmarshal request", "", 0, <<>>, l1[2])
        ELSE IF l1[1][2] = "put" /\ l1[1][3] > 0
        THEN LET l2 == ReadLine(l1[2])
             IN  IF l2 = <<>> THEN ReadResult("EOF", "", 0, <<>>, <<>>)
                 ELSE IF l2[1][1] # "str"
                 THEN ReadResult("failed to unmarshal body as JSON string", "", 0,
                                 <<>>, l2[2])
                 ELSE ReadResult("", "put", l1[1][3], l2[1][2], l2[2])
        ELSE ReadResult("", l1[1][2], l1[1][3], <<>>, l1[2])

\* Run's loop: the next call of ReadRequest, as long as none returned an error.
ReadStep ==
    /\ IF rdout = <<>> THEN TRUE ELSE rdout[Len(rdout)].err = ""
    /\ rdout' = Append(rdout, ReadRequest(rdin))
    /\ rdin' = ReadRequest(rdin).rest
    /\ UNCHANGED <<brokerVars, lockVars, lcroot, lcfiles, lcsub, lcret, memVars, retryVars>>

ReadInit ==
    /\ BrokerInit
    /\ fs = EmptyMap
    /\ LockIdle
    /\ lcroot = TRUE
    /\ lcfiles = EmptyMap
    /\ lcsub = FALSE
    /\ lcret = [op |-> "none"]
    /\ rdin \in InputsUpTo(MaxLines)
    /\ rdout = <<>>
    /\ MemIdle
    /\ RetryIdle

ReadNext == ReadStep

ReadSpec == ReadInit /\ [][ReadNext]_vars

\* ------------------------------------------------- the filesystem-lock groups

Callers == 1..MaxCallers

\* The process a goroutine runs in: callers 1 and 2 share the first process.
Proc(c) == (c + 1) \div 2

Procs == { Proc(c) : c \in Callers }

LockKeys == { "put:0a", "get:0a" }

\* lockPath: the hex SHA-256 of the key names the lock file, so different
\* keys have different lock files in the shared lock directory.
LockPath(key) == <<"/locks/", "sha256", key, ".lock">>

\* The call a caller is making: the caller and the number of the call.
CallId(c) == <<c, lcalls[c] + 1>>

\* What fn returns: a value that tells which execution produced it.
FnResult(c) == CallId(c)

\* The error fn returns: the fn handed to a caller's second call fails.
FnErr(call) == IF call[2] = 2 THEN <<"fn failed">> ELSE NoErr

\* What a call of Do hands back when fn has returned: fn's value and error.
FnOutcome(call, shared) ==
    [v |-> IF FnErr(call) = NoErr THEN call ELSE <<>>,
     err |-> FnErr(call),
     shared |-> shared]

NoReturn == [v |-> <<>>, err |-> NoErr, shared |-> FALSE]

\* Mutant: the lock is granted whoever holds it.
AlwaysFree(path) == TRUE

\* flock(2) with LOCK_EX | LOCK_NB on a fresh descriptor of the lock file.
FlockFree(path) == path \notin DOMAIN flocks

\* A goroutine calls Do of one of the two groups of its process.
DoCall(c) ==
    /\ lpc[c] = "idle"
    /\ lcalls[c] < MaxCalls
    /\ \E key \in LockKeys, grp \in {"flock", "fslock"} :
          /\ lkey' = [lkey EXCEPT ![c] = key]
          /\ lgrp' = [lgrp EXCEPT ![c] = grp]
          /\ lpc' = [lpc EXCEPT ![c] = IF grp = "flock" THEN "try" ELSE "enter"]
    /\ lprobes' = [lprobes EXCEPT ![c] = 0]
    /\ UNCHANGED <<lcalls, flocks, gcalls, lwait, lret, gresults, brokerVars, cacheVars>>

\* FSLockGroup.Do: one probe of TryLockContext.
TryLock(c) ==
    /\ lpc[c] = "try"
    /\ \/ /\ FlockFree(LockPath(lkey[c]))
          /\ flocks' = MapPut(flocks, LockPath(lkey[c]), c)
          /\ lpc' = [lpc EXCEPT ![c] = "fn"]
          /\ lprobes' = [lprobes EXCEPT ![c] = 0]
       \/ /\ ~FlockFree(LockPath(lkey[c]))
          /\ lprobes[c] < MaxProbes
          /\ lprobes' = [lprobes EXCEPT ![c] = lprobes[c] + 1]
          /\ UNCHANGED <<flocks, lpc>>
    /\ UNCHANGED <<lgrp, lkey, lcalls, gcalls, lwait, lret, gresults, brokerVars, cacheVars>>

\* FSLockGroup.Do: the context expires while the lock is held by another.
\* TryLockContext ends its retry loop on ctx.Done() with (false, ctx.Err()),
\* so the call leaves through the `err != nil` return, which wraps the
\* context's error; the `!acquired` return after it is never taken.
TryLockTimeout(c) ==
    /\ lpc[c] = "try"
    /\ lprobes[c] > 0
    /\ lpc' = [lpc EXCEPT ![c] = "idle"]
    /\ lcalls' = [lcalls EXCEPT ![c] = lcalls[c] + 1]
    /\ lret' = [lret EXCEPT ![c] = [NoReturn EXCEPT !.err = <<"failed to acquire lock: ",
                                                              "context deadline exceeded">>]]
    /\ lprobes' = [lprobes EXCEPT ![c] = 0]
    /\ UNCHANGED <<lgrp, lkey, flocks, gcalls, lwait, gresults, brokerVars, cacheVars>>

\* GofslockGroup.Do under g.mu: join the call in flight for the key, or
\* register a new call.
GroupEnter(c) ==
    /\ lpc[c] = "enter"
    /\ \/ /\ lkey[c] \in DOMAIN gcalls[Proc(c)]
          /\ lwait' = [lwait EXCEPT ![c] = gcalls[Proc(c)][lkey[c]]]
          /\ lpc' = [lpc EXCEPT ![c] = "wait"]
          /\ UNCHANGED gcalls
       \/ /\ lkey[c] \notin DOMAIN gcalls[Proc(c)]
          /\ gcalls' = [gcalls EXCEPT ![Proc(c)] = MapPut(@, lkey[c], CallId(c))]
          /\ lpc' = [lpc EXCEPT ![c] = "lock"]
          /\ UNCHANGED lwait
    /\ UNCHANGED <<lgrp, lkey, lcalls, lprobes, flocks, lret, gresults, brokerVars, cacheVars>>

\* GofslockGroup.Do: lock.Lock() blocks until the flock is free.
GroupLock(c) ==
    /\ lpc[c] = "lock"
    /\ FlockFree(LockPath(lkey[c]))
    /\ flocks' = MapPut(flocks, LockPath(lkey[c]), c)
    /\ lpc' = [lpc EXCEPT ![c] = "fn"]
    /\ UNCHANGED <<lgrp, lkey, lcalls, lprobes, gcalls, lwait, lret, gresults, brokerVars, cacheVars>>

\* GofslockGroup.Do: lock.Lock() fails (the lock file cannot be opened or
\* locked).  The leader sets its return value and goes on to delete the entry
\* and close done; fn does not run and the call object stays empty.
GroupLockFail(c) ==
    /\ lpc[c] = "lock"
    /\ lret' = [lret EXCEPT ![c] = [NoReturn EXCEPT !.err = <<"failed to acquire lock: ",
                                                              "lock failed">>]]
    /\ lpc' = [lpc EXCEPT ![c] = "clean"]
    /\ UNCHANGED <<lgrp, lkey, lcalls, lprobes, flocks, gcalls, lwait, gresults, brokerVars, cacheVars>>

\* fn runs under the lock and returns its value or its error.
FnReturn(c) ==
    /\ lpc[c] = "fn"
    /\ lret' = [lret EXCEPT ![c] = FnOutcome(FnResult(c), FALSE)]
    /\ gresults' = IF lgrp[c] = "fslock"
                   THEN MapPut(gresults, CallId(c), FnOutcome(FnResult(c), FALSE))
                   ELSE gresults
    /\ lpc' = [lpc EXCEPT ![c] = "unlock"]
    /\ UNCHANGED <<lgrp, lkey, lcalls, lprobes, flocks, gcalls, lwait, brokerVars, cacheVars>>

\* The locks that remain when the goroutines in gone end: with the deferred
\* Unlock of FSLockGroup.Do, or with the descriptors of a process that exits.
LocksWithout(gone) ==
    [p \in { q \in DOMAIN flocks : flocks[q] \notin gone } |-> flocks[p]]

\* fn panics under the lock.  The stack unwinds through Do: the deferred
\* fileLock.Unlock() of FSLockGroup.Do runs, GofslockGroup.Do has no deferred
\* call and none of its statements after fn() runs.  Then either a caller
\* further up recovers and the process lives on, or the process exits and
\* the kernel closes its descriptors; nothing of the process's memory is
\* left, so its goroutines' fields return to their zero values.
FnPanic(c) ==
    /\ lpc[c] = "fn"
    /\ \/ /\ lpc' = [lpc EXCEPT ![c] = "panicked"]
          /\ flocks' = IF lgrp[c] = "flock" THEN LocksWithout({c}) ELSE flocks
          /\ UNCHANGED <<lgrp, lkey, lcalls, lprobes, gcalls, lwait, lret, gresults>>
       \/ LET gone == { d \in Callers : Proc(d) = Proc(c) }
              Keep(f, zero) == [d \in Callers |-> IF d \in gone THEN zero ELSE f[d]]
          IN  /\ lpc' = Keep(lpc, "exited")
              /\ flocks' = LocksWithout(gone)
              /\ gcalls' = [gcalls EXCEPT ![Proc(c)] = EmptyMap]
              /\ gresults' = [call \in { x \in DOMAIN gresults : x[1] \notin gone } |->
                                 gresults[call]]
              /\ lgrp' = Keep(lgrp, "flock")
              /\ lkey' = Keep(lkey, "put:0a")
              /\ lcalls' = Keep(lcalls, 0)
              /\ lprobes' = Keep(lprobes, 0)
              /\ lwait' = Keep(lwait, <<0, 0>>)
              /\ lret' = Keep(lret, NoReturn)
    /\ UNCHANGED <<brokerVars, cacheVars>>

\* Unlock: the descriptor is closed and the flock released.  FSLockGroup.Do
\* returns; GofslockGroup.Do goes on to clean up.
Unlock(c) ==
    /\ lpc[c] = "unlock"
    /\ flocks' = MapDelete(flocks, LockPath(lkey[c]))
    /\ IF lgrp[c] = "flock"
       THEN /\ lpc' = [lpc EXCEPT ![c] = "idle"]
            /\ lcalls' = [lcalls EXCEPT ![c] = lcalls[c] + 1]
       ELSE /\ lpc' = [lpc EXCEPT ![c] = "clean"]
            /\ UNCHANGED lcalls
    /\ UNCHANGED <<lgrp, lkey, lprobes, gcalls, lwait, lret, gresults, brokerVars, cacheVars>>

\* GofslockGroup.Do: delete(g.calls, key) under g.mu.
GroupClean(c) ==
    /\ lpc[c] = "clean"
    /\ gcalls' = [gcalls EXCEPT ![Proc(c)] = MapDelete(@, lkey[c])]
    /\ lpc' = [lpc EXCEPT ![c] = "close"]
    /\ UNCHANGED <<lgrp, lkey, lcalls, lprobes, flocks, lwait, lret, gresults, brokerVars, cacheVars>>

\* The call objects left when caller c drops its pointer to a call: the
\* object lives on only while a waiter still holds a pointer to it.
Collect(call, c) ==
    IF \E d \in Callers \ {c} : lpc[d] = "wait" /\ lwait[d] = call
    THEN gresults
    ELSE MapDelete(gresults, call)

\* GofslockGroup.Do: close(call.done) and the return of the leader.
GroupClose(c) ==
    /\ lpc[c] = "close"
    /\ lpc' = [lpc EXCEPT ![c] = "idle"]
    /\ lcalls' = [lcalls EXCEPT ![c] = lcalls[c] + 1]
    /\ gresults' = Collect(CallId(c), c)
    /\ UNCHANGED <<lgrp, lkey, lprobes, flocks, gcalls, lwait, lret, brokerVars, cacheVars>>

\* Whether the done channel of a call is closed.
CallDone(call) == lcalls[call[1]] >= call[2]

\* Mutant: a waiter returns the zero values whatever fn returned.
CallResultZero(call) == [NoReturn EXCEPT !.shared = TRUE]

\* What a waiter reads from the call object: call.result and call.err as fn
\* left them, or the zero values when fn never stored any.
CallResult(call) ==
    IF call \in DOMAIN gresults
    THEN [gresults[call] EXCEPT !.shared = TRUE]
    ELSE [NoReturn EXCEPT !.shared = TRUE]

\* GofslockGroup.Do: a waiter returns the result of the call it waited for.
GroupWake(c) ==
    /\ lpc[c] = "wait"
    /\ CallDone(lwait[c])
    /\ lret' = [lret EXCEPT ![c] = CallResult(lwait[c])]
    /\ lpc' = [lpc EXCEPT ![c] = "idle"]
    /\ lcalls' = [lcalls EXCEPT ![c] = lcalls[c] + 1]
    /\ lwait' = [lwait EXCEPT ![c] = <<0, 0>>]
    /\ gresults' = Collect(lwait[c], c)
    /\ UNCHANGED <<lgrp, lkey, lprobes, flocks, gcalls, brokerVars, cacheVars>>

\* Idle goroutines in two processes that share one lock directory.
LockInit ==
    /\ lpc = [c \in Callers |-> "idle"]
    /\ lgrp = [c \in Callers |-> "flock"]
    /\ lkey = [c \in Callers |-> "put:0a"]
    /\ lcalls = [c \in Callers |-> 0]
    /\ lprobes = [c \in Callers |-> 0]
    /\ flocks = EmptyMap
    /\ gcalls = [p \in Procs |-> EmptyMap]
    /\ lwait = [c \in Callers |-> <<0, 0>>]
    /\ lret = [c \in Callers |-> NoReturn]
    /\ gresults = EmptyMap

LockNext ==
    \E c \in Callers :
       \/ DoCall(c)
       \/ TryLock(c)
       \/ TryLockTimeout(c)
       \/ GroupEnter(c)
       \/ GroupLock(c)
       \/ GroupLockFail(c)
       \/ FnReturn(c)
       \/ FnPanic(c)
       \/ Unlock(c)
       \/ GroupClean(c)
       \/ GroupClose(c)
       \/ GroupWake(c)

\* The broker is idle while the lock groups are exercised.
LockSpecInit == BrokerInit /\ LockInit /\ CacheIdle /\ fs = EmptyMap

LockSpec == LockSpecInit /\ [][LockNext]_vars

(***************************************************************************)
(* MemSpec: goroutines of one process call DoWithLock on the MemLock that  *)
(* NewMemLock built.  NewMemLock returns &MemLock{}: the embedded mutex is *)
(* unlocked and the locks map is nil.                                      *)
(***************************************************************************)

\* The nil map: reading it finds no key, assigning to an entry panics.
NilMap == "nil"

\* lock, ok := s.locks[key]
MemLookup(locks, key) == IF locks = NilMap THEN FALSE ELSE key \in DOMAIN locks

\* A goroutine calls DoWithLock(key, fn).
MemCall(c) ==
    /\ mpc[c] = "idle"
    /\ \E key \in LockKeys : mkey' = [mkey EXCEPT ![c] = key]
    /\ mpc' = [mpc EXCEPT ![c] = "lock"]
    /\ UNCHANGED <<mmu, mlocks, mruns>>
    /\ UNCHANGED <<brokerVars, lockVars, lcroot, lcfiles, lcsub, lcret, readVars, retryVars>>

\* DoWithLock: s.Lock() and the lookup of the key's mutex.
MemLock(c) ==
    /\ mpc[c] = "lock"
    /\ mmu = 0
    /\ mmu' = c
    /\ mpc' = [mpc EXCEPT ![c] = IF MemLookup(mlocks, mkey[c]) THEN "unlock" ELSE "store"]
    /\ UNCHANGED <<mkey, mlocks, mruns>>
    /\ UNCHANGED <<brokerVars, lockVars, lcroot, lcfiles, lcsub, lcret, readVars, retryVars>>

\* DoWithLock: s.locks[key] = lock.  On the nil map the assignment panics
\* with s still locked (s.Unlock() is not deferred).  Either a caller further
\* up recovers and the process lives on, or the process exits.
MemStore(c) ==
    /\ mpc[c] = "store"
    /\ IF mlocks = NilMap
       THEN \/ /\ mpc' = [mpc EXCEPT ![c] = "panicked"]
               /\ UNCHANGED <<mmu, mkey>>
            \/ /\ mpc' = [d \in Callers |-> "exited"]
               /\ mkey' = [d \in Callers |-> "put:0a"]
               /\ mmu' = 0
       ELSE /\ mpc' = [mpc EXCEPT ![c] = "unlock"]
            /\ UNCHANGED <<mmu, mkey>>
    /\ mlocks' = IF mlocks = NilMap THEN mlocks ELSE MapPut(mlocks, mkey[c], 0)
    /\ UNCHANGED mruns
    /\ UNCHANGED <<brokerVars, lockVars, lcroot, lcfiles, lcsub, lcret, readVars, retryVars>>

\* NewMemLock, and idle goroutines.
MemInit ==
    /\ BrokerInit
    /\ fs = EmptyMap
    /\ LockIdle
    /\ lcroot = TRUE
    /\ lcfiles = EmptyMap
    /\ lcsub = FALSE
    /\ lcret = [op |-> "none"]
    /\ rdin = <<>>
    /\ rdout = <<>>
    /\ RetryIdle
    /\ mpc = [c \in Callers |-> "idle"]
    /\ mkey = [c \in Callers |-> "put:0a"]
    /\ mmu = 0
    /\ mlocks = NilMap
    /\ mruns = [c \in Callers |-> 0]

MemNext == \E c \in Callers : MemCall(c) \/ MemLock(c) \/ MemStore(c)

MemSpec == MemInit /\ [][MemNext]_vars

(***************************************************************************)
(* RetrySpec: one call of HandleRequestWithRetries(req, maxRetries) over   *)
(* the disk backend.  The request is as ReadRequest built it: req.Body is  *)
(* one strings.Reader over the decoded body, made once.                    *)
(***************************************************************************)

RetryRequests ==
    { [cmd |-> "put", body |-> <<7, 8>>, size |-> 2],
      [cmd |-> "put", body |-> <<>>, size |-> 0],
      [cmd |-> "get", body |-> <<>>, size |-> 0],
      [cmd |-> "close", body |-> <<>>, size |-> 0],
      [cmd |-> "stat", body |-> <<>>, size |-> 0] }

\* What one call of HandleRequest can come to: its error, and what is left
\* of req.Body.  A put fails before the body is read (os.Create), reads all
\* that the reader still holds and compares its length with BodySize, and
\* may then fail on the sidecar; get and close succeed or fail in the
\* backend; any other command is an error.
Attempt(err, left) == [err |-> err, left |-> left]

HandleRequestOutcomes(req, reader) ==
    IF req.cmd = "put"
    THEN { Attempt(<<"failed to create cache file">>, reader) } \cup
         ( IF req.size > 0 /\ Len(reader) # req.size
           THEN { Attempt(<<"size mismatch">>, <<>>) }
           ELSE { Attempt(NoErr, IF req.size > 0 THEN <<>> ELSE reader),
                  Attempt(<<"failed to write metadata">>,
                          IF req.size > 0 THEN <<>> ELSE reader) } )
    ELSE IF req.cmd \in {"get", "close"}
    THEN { Attempt(NoErr, reader),
           Attempt(<<"error backend: simulated error: ", req.cmd>>, reader) }
    ELSE { Attempt(<<"unknown command: ", req.cmd>>, reader) }

\* Mutant: a failed close is retried like any other request.
RetryStopsOnSuccessOnly(err, cmd, attempt, n) == err = NoErr \/ attempt >= n

\* The two returns inside the loop: success or close, and retries exhausted.
RetryStops(err, cmd, attempt, n) == err = NoErr \/ cmd = "close" \/ attempt >= n

\* The loop body up to the call: resp, err = cp.HandleRequest(req).
RetryCall ==
    /\ rtpc = "call"
    /\ rtattempt <= rtn
    /\ \E o \in HandleRequestOutcomes(rtreq, rtreader) :
          /\ rterr' = o.err
          /\ rtreader' = o.left
          /\ rtpassed' = Append(rtpassed, [body |-> rtreader, err |-> o.err])
    /\ rtpc' = "check"
    /\ UNCHANGED <<rtreq, rtn, rtattempt>>
    /\ UNCHANGED <<brokerVars, lockVars, lcroot, lcfiles, lcsub, lcret, readVars, memVars>>

\* The rest of the loop body: return, or sleep and go round again.
RetryCheck ==
    /\ rtpc = "check"
    /\ IF RetryStops(rterr, rtreq.cmd, rtattempt, rtn)
       THEN rtpc' = "returned" /\ UNCHANGED rtattempt
       ELSE rtpc' = "call" /\ rtattempt' = rtattempt + 1
    /\ UNCHANGED <<rtreq, rtn, rtreader, rtpassed, rterr>>
    /\ UNCHANGED <<brokerVars, lockVars, lcroot, lcfiles, lcsub, lcret, readVars, memVars>>

RetryInit ==
    /\ BrokerInit
    /\ fs = EmptyMap
    /\ LockIdle
    /\ lcroot = TRUE
    /\ lcfiles = EmptyMap
    /\ lcsub = FALSE
    /\ lcret = [op |-> "none"]
    /\ rdin = <<>>
    /\ rdout = <<>>
    /\ MemIdle
    /\ rtpc = "call"
    /\ rtreq \in RetryRequests
    /\ rtn \in 0..MaxRetries
    /\ rtattempt = 0
    /\ rtreader = rtreq.body
    /\ rtpassed = <<>>
    /\ rterr = NoErr

RetryNext == RetryCall \/ RetryCheck

RetrySpec == RetryInit /\ [][RetryNext]_vars

\* ------------------------------------------------------ reading the output

\* The lines on stdout, once each is a JSON chunk and a newline chunk.
NumLines == Len(output) \div 2

\* What the peer decodes from line k.
Line(k) == Unmarshal(output[2 * k - 1].obj)

\* The lines that answer request i.
LinesOf(i) == { k \in 1..NumLines : Line(k).ID = reqs[i].id }

Answered(i) == LinesOf(i) # {}

SameOperation(i, j) ==
    IsCacheCmd(reqs[i].cmd) /\ reqs[i].cmd = reqs[j].cmd /\ reqs[i].aid = reqs[j].aid

\* ------------------------------------------------------------------ claims

\* C1: every request read from input gets exactly one response, with the
\* request's ID, and no line after the handshake carries an ID that was not
\* requested.  At most one response per request at every moment; each one
\* once the handler is done and once Run has returned, unless stdout failed
\* (a response that cannot be written is not written).
C1_OneResponsePerRequest ==
    /\ \A k \in 2..NumLines : \E i \in Requests : Line(k).ID = reqs[i].id
    /\ \A i \in Requests : Cardinality(LinesOf(i)) <= 1
    /\ \A i \in Requests : (hpc[i] = "done" /\ ~werr) => Cardinality(LinesOf(i)) = 1
    /\ (runpc = "returned" /\ ~werr) => \A i \in Requests : Cardinality(LinesOf(i)) = 1

\* Run has returned after a put, an unknown command and a close were read
\* and answered, the put by a waiter of another put's call.
C1_Witness ==
    /\ runpc = "returned"
    /\ ~werr
    /\ Len(reqs) = 3
    /\ \A i \in Requests : Answered(i)
    /\ \E i \in Requests : hlead[i] # 0
    /\ \E i \in Requests : ~IsCacheCmd(reqs[i].cmd)

\* C2: a get that follows a successfully answered put(A, O, body), with no
\* other put to A read in between or pending and no fault injected, is
\* answered Miss=false, OutputID O, Size len(body), and the file at DiskPath
\* holds body (as long as no later put to A is read).
C2_ReadYourWrites ==
    \A i \in Requests :
       (reqs[i].cmd = "get" /\ expect[i] # NoPayload /\ faults = 0 /\ Answered(i)) =>
          \A k \in LinesOf(i) :
             /\ Line(k).Miss = FALSE
             /\ Line(k).OutputID = expect[i].oid
             /\ Line(k).Size = Len(expect[i].body)
             /\ (\A j \in Requests : j > i => ~(reqs[j].cmd = "put" /\ reqs[j].aid = reqs[i].aid))
                   => /\ Line(k).DiskPath \in DOMAIN fs
                      /\ fs[Line(k).DiskPath] = expect[i].body

C4_NoOverlappingBackendCalls ==
    \A i, j \in Requests :
       (i # j /\ Executing(i) /\ Executing(j)) => ~SameOperation(i, j)

\* A backend Put executes while a second put for the same ActionID is
\* waiting for it.
C4_Witness ==
    \E i, j \in Requests :
       /\ reqs[i].cmd = "put"
       /\ reqs[j].cmd = "put"
       /\ reqs[i].aid = reqs[j].aid
       /\ hpc[i] = "putCopy"
       /\ hpc[j] = "wait"

\* C5: for any key, no two callers of the lock groups that share the lock
\* directory, in one process or in two, execute fn at the same time.
C5_FnNeverOverlaps ==
    \A c, d \in DOMAIN lpc :
       (c # d /\ lpc[c] = "fn" /\ lpc[d] = "fn") => lkey[c] # lkey[d]

\* A caller of FSLockGroup executes fn while a caller of GofslockGroup in
\* the other process is blocked on the lock of the same key, and a third
\* caller has been refused the lock once.
C5_Witness ==
    \E c, d, e \in DOMAIN lpc :
       /\ Proc(c) # Proc(d)
       /\ lpc[c] = "fn" /\ lgrp[c] = "flock"
       /\ lpc[d] = "lock" /\ lkey[d] = lkey[c]
       /\ lpc[e] = "try" /\ lkey[e] = lkey[c] /\ lprobes[e] > 0

\* C6: the response to close is written after the response of every request
\* read before the close.
C6_CloseAnsweredLast ==
    \A i \in Requests :
       (reqs[i].cmd = "close" /\ Answered(i)) =>
          \A j \in 1..(i - 1) :
             /\ Answered(j)
             /\ \A k \in LinesOf(j), c \in LinesOf(i) : k < c

\* A put, a second request and a close were read, and all three responses
\* are on stdout.
C6_Witness ==
    /\ Len(reqs) = 3
    /\ reqs[3].cmd = "close"
    /\ reqs[1].cmd = "put"
    /\ \A i \in Requests : Answered(i)

\* C7: Backend.Close is invoked when no backend Put or Get executes, none
\* starts afterwards, and the close is the last request read: nothing that
\* follows it in the input is dispatched.
C7_CloseOnIdleBackend ==
    /\ closeCalls > 0 =>
          \A i \in Requests : ~Executing(i) /\ hpc[i] # "start" /\ ~InDo(i)
    /\ \A i \in Requests : reqs[i].cmd = "close" => i = Len(reqs)

\* Backend.Close was invoked after a put and a get that had invoked the
\* backend.
C7_Witness ==
    /\ closeCalls = 1
    /\ Len(reqs) = 3
    /\ Invoked(1)
    /\ Invoked(2)

\* C8: the first line written is the handshake, ID 0 and KnownCommands
\* [put, get, close]; no other line is a handshake; no request is read
\* before it is written.
C8_HandshakeFirst ==
    /\ NumLines > 0 =>
          /\ Line(1).ID = 0
          /\ Line(1).KnownCommands = <<"put", "get", "close">>
    /\ \A k \in 2..NumLines : Line(k).KnownCommands = <<>> /\ Line(k).ID # 0
    /\ Len(reqs) > 0 => NumLines > 0

\* The handshake is on stdout, followed by the responses of two requests.
C8_Witness ==
    /\ NumLines = 3
    /\ Line(1).KnownCommands = <<"put", "get", "close">>

\* C9: at most one goroutine is inside SendResponse's critical section,
\* and stdout holds complete lines: a JSON object, then one newline.
C9_WritersExcluded ==
    /\ Cardinality({ i \in Requests : hpc[i] \in {"nl", "flush"} })
          + (IF runpc \in {"initNl", "initFlush", "closeNl", "closeFlush"} THEN 1 ELSE 0) <= 1
    /\ Len(output) % 2 = 0
    /\ \A k \in 1..Len(output) :
          output[k].kind = (IF k % 2 = 1 THEN "json" ELSE "nl")
    /\ Len(wbuf) <= 2
    /\ \A k \in 1..Len(wbuf) :
          wbuf[k].kind = (IF k % 2 = 1 THEN "json" ELSE "nl")

\* One handler is about to flush its line while another has its response
\* ready and waits for the mutex.
C9_Witness ==
    \E i, j \in Requests :
       /\ hpc[i] = "flush"
       /\ hpc[j] = "respond"
       /\ wmu = i

\* C10: a put or get whose backend call returned an error is answered with
\* Err set and Miss true, and no backend error ends Run: Run returns an
\* error only for a failed read or a failed write.
C10_BackendErrorAnswered ==
    /\ \A i \in Requests :
          (IsCacheCmd(reqs[i].cmd) /\ hres[i].set /\ hres[i].err # NoErr) =>
             \A k \in LinesOf(i) : Line(k).Err = hres[i].err /\ Line(k).Miss
    /\ runErr \notin {"running", "nil"} => (werr \/ runErr = "failed to read request")
    /\ (runpc = "returned" /\ ~werr) => \A i \in Requests : Answered(i)

\* A get failed in the backend and was answered with the error; a put read
\* after that answer was written has been answered without error.
C10_Witness ==
    \E i, j \in Requests :
       /\ i < j
       /\ reqs[i].cmd = "get" /\ hres[i].err # NoErr /\ Answered(i)
       /\ reqs[j].cmd = "put" /\ hres[j].set /\ hres[j].err = NoErr /\ Answered(j)
       /\ hlead[j] = 0

\* C11: when the write of a response fails in a request handler, Run
\* returns an error.  Stated on the state Run returns in: stdout has failed
\* (in the handshake, in a handler or in the close response), so the value
\* returned is not nil.
C11_WriteFailureIsFatal ==
    (runpc = "returned" /\ werr) => runErr # "nil"

\* C12: after a request line that is not JSON, or a put body line that is
\* not a JSON string of valid base64, no further request is read, Run
\* returns the framing error after the handlers have finished, and every
\* request read before is answered (unless stdout failed).
C12_FramingErrorIsFatal ==
    /\ [](stdin \in {"badLine", "badBody"} =>
             /\ runErr = "failed to read request"
             /\ runpc \in {"errWait", "returned"}
             /\ runpc = "returned" =>
                   \A i \in Requests : hpc[i] = "done" /\ (~werr => Answered(i)))
    /\ [][(stdin \in {"badLine", "badBody"}) => (reqs' = reqs)]_vars

\* Run has returned after a bad body line that was read while requests were
\* being handled; both requests are answered.
C12_Witness ==
    /\ stdin = "badBody"
    /\ runpc = "returned"
    /\ Len(reqs) = 2
    /\ \A i \in Requests : Answered(i)
    /\ \E i \in Requests : reqs[i].cmd = "put" /\ hres[i].err = NoErr

\* C13: when the input ends after the header line of a put with
\* BodySize > 0 and before its body line, Run returns an error.
C13_EofInRequestIsFatal ==
    (stdin = "eofInPut" /\ runpc = "returned") => runErr # "nil"

\* C14: after the input ended at a request boundary no request is read any
\* more; when Run has returned, every request read is answered, stdout
\* holds the handshake and one line per request and nothing else, and Run
\* returned nil (unless stdout failed).
C14_EofIsOrderlyShutdown ==
    /\ [](stdin = "eof" =>
             /\ runpc \in {"final", "errWait", "returned"}
             /\ closeCalls = 0
             /\ (runpc = "returned" /\ ~werr) =>
                   /\ runErr = "nil"
                   /\ NumLines = 1 + Len(reqs)
                   /\ Len(output) = 2 * NumLines
                   /\ \A i \in Requests : Cardinality(LinesOf(i)) = 1)
    /\ [][(stdin = "eof") => (reqs' = reqs)]_vars

\* The input ended while two handlers were running; Run has returned nil and
\* both requests are answered.
C14_Witness ==
    /\ stdin = "eof"
    /\ runpc = "returned"
    /\ runErr = "nil"
    /\ Len(reqs) = 2
    /\ \A i \in Requests : Answered(i)

\* The input ended before any request: Run has returned nil and stdout
\* holds the handshake only.
C14_WitnessNoRequest ==
    /\ stdin = "eof"
    /\ runpc = "returned"
    /\ runErr = "nil"
    /\ reqs = <<>>
    /\ NumLines = 1

\* C15: a request whose command is none of put, get, close never enters the
\* single-flight group or a backend operation; each line written for it
\* carries its ID and Err = "unknown command: <name>" and nothing else; and
\* while the input is open, no close was read and stdout works, Run is still
\* in its loop.
C15_UnknownCommandAnswered ==
    /\ \A i \in Requests :
          reqs[i].cmd \in UnknownCmds =>
             /\ hpc[i] \in {"start", "respond", "nl", "flush", "done"}
             /\ hlead[i] = 0
             /\ \A k \in DOMAIN sfm : sfm[k] # i
             /\ \A k \in LinesOf(i) :
                   Line(k) = [ZeroResponse EXCEPT
                                 !.ID = reqs[i].id,
                                 !.Err = <<"unknown command: ", reqs[i].cmd>>]
    /\ (/\ stdin = "open"
        /\ ~werr
        /\ \A i \in Requests : reqs[i].cmd # "close")
       => (/\ runpc \in {"init", "initNl", "initFlush", "read", "select"}
           /\ runErr = "running")

\* An unknown command was answered, the backend holds nothing yet, and a put
\* read after it was answered without Err.
C15_Witness ==
    /\ Len(reqs) = 3
    /\ reqs[1].cmd \in UnknownCmds
    /\ reqs[2].cmd = "put"
    /\ Answered(1)
    /\ \E k \in LinesOf(2) : Line(k).Err = NoErr /\ Line(k).DiskPath # <<>>
    /\ \E k \in LinesOf(1) : \E m \in LinesOf(2) : k < m

\* C16: every line written for a get request that is a hit (no Err, Miss
\* false) carries a non-empty OutputID and a non-empty DiskPath.
C16_HitCarriesOutputID ==
    \A i \in Requests :
       reqs[i].cmd = "get" =>
          \A k \in LinesOf(i) :
             (Line(k).Err = NoErr /\ ~Line(k).Miss) =>
                (Line(k).OutputID # <<>> /\ Line(k).DiskPath # <<>>)

\* The request a line answers is a get and the line is a hit.
IsGetHit(resp) ==
    /\ resp.Err = NoErr
    /\ ~resp.Miss
    /\ \E i \in Requests : reqs[i].id = resp.ID /\ reqs[i].cmd = "get"

\* C17: in every step that writes the line of a get hit to stdout, the file
\* the line's DiskPath names exists after the step and holds exactly as many
\* bytes as the line's Size says.
C17_HitFileMatchesSize ==
    [][\A k \in 1..NumLines' :
          (k > NumLines /\ IsGetHit(Line(k)')) =>
             /\ Line(k)'.DiskPath \in DOMAIN fs'
             /\ Len(fs'[Line(k)'.DiskPath]) = Line(k)'.Size]_vars

\* The complete contents the body file of an ActionID can have: the body of
\* a put whose BodySize is right, or what the directory held at the start.
CompleteBodies(aid) ==
    { p[2].body : p \in { q \in PutInputs : q[1] = aid /\ DiskCopyOk(q[2].body, q[2].size) } }
    \cup { d[ActionIDToPath(aid)] : d \in { e \in InitialDirs : ActionIDToPath(aid) \in DOMAIN e } }

\* An earlier put of the same ActionID was answered without Err: the peer
\* holds the entry's DiskPath.
HoldsDiskPath(i) ==
    \E j \in 1..(i - 1) :
       /\ reqs[j].cmd = "put"
       /\ reqs[j].aid = reqs[i].aid
       /\ \E k \in LinesOf(j) : Line(k).Err = NoErr /\ Line(k).DiskPath # <<>>

\* C18: while the backend is storing a put to an ActionID whose DiskPath
\* the peer already holds, the file at that path exists and holds a complete
\* body: the prior content or the new one, never an empty or partial file.
C18_ObserverSeesCompleteBody ==
    \A i \in Requests :
       (/\ reqs[i].cmd = "put"
        /\ hpc[i] \in {"putCopy", "putMeta"}
        /\ HoldsDiskPath(i)) =>
          /\ ActionIDToPath(reqs[i].aid) \in DOMAIN fs
          /\ fs[ActionIDToPath(reqs[i].aid)] \in CompleteBodies(reqs[i].aid)

\* The put requests for an ActionID, and the line that answers a request.
PutsTo(aid) == { i \in Requests : reqs[i].cmd = "put" /\ reqs[i].aid = aid }

LineOf(i) == CHOOSE k \in LinesOf(i) : TRUE

\* C19: when every put to an ActionID read so far has been answered without
\* Err (and there is one), a get of that ActionID finds the OutputID and the
\* body of the put that was answered last.
C19_LastStoreWins ==
    \A aid \in ActionIDs :
       (/\ PutsTo(aid) # {}
        /\ \A i \in PutsTo(aid) :
              /\ hpc[i] = "done"
              /\ Answered(i)
              /\ \A k \in LinesOf(i) : Line(k).Err = NoErr) =>
          LET last == CHOOSE i \in PutsTo(aid) :
                         \A j \in PutsTo(aid) : LineOf(j) <= LineOf(i)
          IN  /\ DiskStat(fs, aid)
              /\ ~DiskGetMeta(fs, aid).miss
              /\ DiskGetMeta(fs, aid).outputID = reqs[last].payload.oid
              /\ fs[ActionIDToPath(aid)] = reqs[last].payload.body

\* Request i leads a backend call that is writing the local file of its
\* ActionID: S3Backend.Put inside os.WriteFile, or S3Backend.Get inside
\* downloadFromS3 with the local file created.
WritesLocalFile(i) == hpc[i] \in {"s3WriteData", "s3Copy"}

\* C20: no two requests for one ActionID are writing its local file at the
\* same time.
C20_OneLocalWriterPerActionID ==
    \A i, j \in Requests :
       (i # j /\ reqs[i].aid = reqs[j].aid) =>
          ~(WritesLocalFile(i) /\ WritesLocalFile(j))

\* C24: when Backend.Close failed during close and Run has returned, the
\* close response (if stdout took it) carries the error in Err and Run
\* returned an error.
C24_CloseErrorIsFatal ==
    (closeErr # NoErr /\ runpc = "returned") =>
       /\ runErr # "nil"
       /\ \A k \in LinesOf(Len(reqs)) : Line(k).Err = closeErr

\* The body file of an ActionID exists and its sidecar is absent or has no
\* outputID line.
SidecarUnusable(aid) ==
    /\ DiskStat(fs, aid)
    /\ \/ MetadataPath(aid) \notin DOMAIN fs
       \/ ScanMeta(fs[MetadataPath(aid)], "outputID", <<>>) = <<>>

\* C22: while no put to an ActionID has been read and its body file lies
\* there with an unusable sidecar, every get of that ActionID is answered
\* with Miss = true.
C22_UnusableSidecarIsMiss ==
    \A i \in Requests :
       (/\ reqs[i].cmd = "get"
        /\ PutsTo(reqs[i].aid) = {}
        /\ SidecarUnusable(reqs[i].aid)) =>
          \A k \in LinesOf(i) : Line(k).Miss

\* The two implementations of Clear.
ClearOps == {"clearLocalCache", "Disk.Clear"}

\* C21: right after a Clear, whatever the root was and held, the Clear has
\* returned no error, the root exists and is empty, and every lookup is a
\* miss; a second Clear right after it changes nothing.
C21_ClearIsIdempotent ==
    /\ [](lcret.op \in ClearOps =>
             /\ lcret.err = NoErr
             /\ lcroot
             /\ lcfiles = EmptyMap
             /\ ~lcsub
             /\ \A aid \in ActionIDs : Check(lcfiles, aid) = NoMeta)
    /\ [][(lcret.op \in ClearOps /\ lcret'.op = lcret.op) =>
             (<<lcroot, lcfiles, lcsub>>' = <<lcroot, lcfiles, lcsub>>)]_vars

\* The part of C21 that holds: clearLocalCache, from any directory state.
C21_ClearLocalCacheOnly ==
    lcret.op = "clearLocalCache" =>
       /\ lcret.err = NoErr
       /\ lcroot
       /\ lcfiles = EmptyMap
       /\ ~lcsub

\* A sidecar has a line for a field, and the outputID it states is hex.
HasLine(lines, key) == \E k \in 1..Len(lines) : lines[k][1] = key

EntryComplete(files, aid) ==
    /\ LcBody(aid) \in DOMAIN files
    /\ LcMeta(aid) \in DOMAIN files
    /\ \A key \in {"outputID", "size", "time"} : HasLine(files[LcMeta(aid)], key)
    /\ ScanMeta(files[LcMeta(aid)], "outputID", <<>>) # <<>>
    /\ IsHex(ScanMeta(files[LcMeta(aid)], "outputID", <<>>))

\* C26: right after Check(A), it has returned metadata exactly when the
\* body file exists and the sidecar exists, has the outputID, size and time
\* lines and a hex outputID.
C26_CheckNeedsEveryField ==
    lcret.op = "Check" =>
       (lcret.meta # NoMeta <=> EntryComplete(lcfiles, lcret.aid))

\* C27: right after a WriteWithMetadata(A) that wrote the body and failed to
\* write the sidecar, Check(A) returns null.
C27_FailedSidecarHidesEntry ==
    (lcret.op = "WriteWithMetadata" /\ lcret.err = NoErr /\ lcret.metaErr) =>
       Check(lcfiles, lcret.aid) = NoMeta

C23_ZeroBodyReadsOneLine ==
    [][(/\ Len(rdout') > Len(rdout)
        /\ rdout'[Len(rdout')].err = ""
        /\ rdout'[Len(rdout')].cmd = "put"
        /\ rdout'[Len(rdout')].size = 0)
       => (/\ rdin' = ReadLine(rdin)[2]
           /\ ReadLine(rdin)[1] = <<"req", "put", 0>>)]_vars

\* Two requests were read from three lines: a put with BodySize 0 and the
\* get on the line after it.
C23_WitnessInput ==
    /\ Len(rdout) = 2
    /\ rdout[1].cmd = "put" /\ rdout[1].size = 0 /\ rdout[1].err = ""
    /\ rdout[2].cmd = "get" /\ rdout[2].err = ""

\* C25: a put or get read after the first request and for another ActionID
\* is eventually answered, whether or not the backend call of the first
\* request ever returns.
C25_OtherActionIDsProceed ==
    \A j \in 2..MaxReq :
       (/\ Len(reqs) >= j
        /\ IsCacheCmd(reqs[1].cmd)
        /\ IsCacheCmd(reqs[j].cmd)
        /\ reqs[j].aid # reqs[1].aid)
       ~> (IF Len(reqs) >= j THEN Answered(j) ELSE FALSE)

\* A get for another ActionID has been answered while the first request, a
\* put, is still inside Disk.Put.
C25_Witness ==
    /\ Len(reqs) >= 2
    /\ reqs[1].cmd = "put"
    /\ hpc[1] \in {"putCreate", "putCopy", "putMeta"}
    /\ \E j \in Requests : j > 1 /\ reqs[j].cmd = "get" /\ reqs[j].aid # reqs[1].aid /\ Answered(j)

\* The put request i states a BodySize its body does not have.
Mismatched(i) ==
    /\ reqs[i].cmd = "put"
    /\ ~DiskCopyOk(reqs[i].payload.body, reqs[i].payload.size)

\* C28: a put whose body has another length than its BodySize is answered
\* with an error only, and no body file ever holds its body.
C28_MismatchedPutFails ==
    \A i \in Requests :
       Mismatched(i) =>
          /\ \A k \in LinesOf(i) : Line(k).Err # NoErr
          /\ DiskStat(fs, reqs[i].aid) =>
                fs[ActionIDToPath(reqs[i].aid)] # reqs[i].payload.body

\* The call of caller c that just ended failed to get the lock in time.
TimedOut(c) ==
    /\ lpc[c] = "try"
    /\ lpc'[c] = "idle"

\* C29: a call of the cross-process lock operation that times out returns
\* the error "failed to acquire lock: timeout" and no value, has not run fn,
\* and leaves the locks and the other callers as they were.
C29_TimeoutIsLocalError ==
    [][\A c \in Callers :
          (TimedOut(c)) =>
             (/\ lret'[c].err = <<"failed to acquire lock: ", "timeout">>
              /\ lret'[c].v = <<>>
              /\ flocks' = flocks
              /\ \A d \in Callers \ {c} : lpc'[d] = lpc[d] /\ lret'[d] = lret[d])]_vars

\* The part of C29 that does not name the message: a timed-out call returns
\* an error and no value and touches no lock and no other caller.
C29_TimeoutTouchesNothing ==
    [][\A c \in Callers :
          (TimedOut(c)) =>
             (/\ lret'[c].err # NoErr
              /\ lret'[c].v = <<>>
              /\ flocks' = flocks
              /\ \A d \in Callers \ {c} : lpc'[d] = lpc[d] /\ lret'[d] = lret[d])]_vars

\* Caller c is inside a call of Do that has acquired the lock and not yet
\* released it.
InsideLockedCall(c) == lpc[c] \in {"fn", "unlock"}

\* C30: a lock file is locked only while the call that acquired it is still
\* running: however the call ended, the lock is free for the next caller.
C30_LockReleasedOnEveryExit ==
    \A p \in DOMAIN flocks : InsideLockedCall(flocks[p])

\* The same for the calls of FSLockGroup.Do alone.
C30_FlockReleasedOnEveryExit ==
    \A p \in DOMAIN flocks :
       lgrp[flocks[p]] = "flock" => InsideLockedCall(flocks[p])

\* Caller c returns from a call of GofslockGroup.Do that it led.
LeaderReturns(c) == lpc[c] = "close" /\ lpc'[c] = "idle"

\* Caller c returns from a call of GofslockGroup.Do in which it waited.
WaiterReturns(c) == lpc[c] = "wait" /\ lpc'[c] = "idle"

C39_WaiterSeesLockFailure ==
    \A c \in Callers :
       (lpc[c] = "idle" /\ lret[c].shared) =>
          ~(lret[c].v = <<>> /\ lret[c].err = NoErr)

\* The call that waiter c waits for is still on its way to closing done.
LeaderRunning(c) ==
    LET d == lwait[c][1]
    IN  /\ lcalls[d] + 1 = lwait[c][2]
        /\ lpc[d] \in {"lock", "fn", "unlock", "clean", "close"}

\* C32: a caller that waits on a call in flight is never left behind: the
\* leader is still running towards close(call.done), or done is closed and
\* the waiter can return, however the leader's call ended.
C32_WaitersNeverStranded ==
    \A c \in Callers :
       lpc[c] = "wait" => (CallDone(lwait[c]) \/ LeaderRunning(c))

\* The same when no fn panics: the leader's call ends by fn returning a
\* value or an error, or by the lock failing.
C32_WaitersReleasedWithoutPanic ==
    (\A d \in Callers : lpc[d] # "panicked") => C32_WaitersNeverStranded

\* The in-flight map of process p has an entry for key exactly when a caller
\* of p leads a call for key that has not yet removed its entry.
EntryMatchesLeader(p, key) ==
    (key \in DOMAIN gcalls[p]) <=>
       (\E d \in Callers :
           /\ Proc(d) = p
           /\ lgrp[d] = "fslock"
           /\ lkey[d] = key
           /\ lpc[d] \in {"lock", "fn", "unlock", "clean"})

\* C33: the in-flight map holds an entry for a key exactly while a leader
\* call for the key is running, there is at most one leader per key and
\* process, and the entry is gone when done is closed.
C33_EntryOnlyWhileLeaderRuns ==
    /\ \A p \in Procs, key \in LockKeys : EntryMatchesLeader(p, key)
    /\ \A c, d \in Callers :
          (/\ c # d /\ Proc(c) = Proc(d)
           /\ lgrp[c] = "fslock" /\ lgrp[d] = "fslock"
           /\ lpc[c] \in {"lock", "fn", "unlock", "clean"}
           /\ lpc[d] \in {"lock", "fn", "unlock", "clean"}) => lkey[c] # lkey[d]
    /\ \A p \in Procs : \A key \in DOMAIN gcalls[p] : ~CallDone(gcalls[p][key])

\* The same when no fn panics.
C33_EntryOnlyWhileLeaderRunsWithoutPanic ==
    (\A d \in Callers : lpc[d] # "panicked") => C33_EntryOnlyWhileLeaderRuns

\* Request i was handed to a handler goroutine (close is handled by Run itself).
Spawned(i) == reqs[i].cmd # "close"

\* C36: when Run has returned, on whichever path, every handler that was
\* spawned has completed: none is running and none holds the writer.
C36_NoHandlerOutlivesRun ==
    runpc = "returned" =>
       /\ wg = 0
       /\ \A i \in Requests : Spawned(i) => hpc[i] = "done"

\* Run has returned an error although a handler was spawned, after an output
\* write failed.
C36_Witness ==
    /\ runpc = "returned"
    /\ runErr # "nil"
    /\ werr
    /\ \E i \in Requests : Spawned(i) /\ hpc[i] = "done"

\* Run has returned nil after input ended with two handlers spawned.
C36_WitnessEof ==
    /\ runpc = "returned"
    /\ runErr = "nil"
    /\ \E i, j \in Requests : i # j /\ Spawned(i) /\ Spawned(j)
    /\ \A i \in Requests : Spawned(i)

\* The files of ActionID aid: the body file and the sidecar, each with its
\* content or marked absent.
EntryFiles(files, aid) ==
    <<IF ActionIDToPath(aid) \in DOMAIN files THEN <<files[ActionIDToPath(aid)]>> ELSE <<>>,
      IF MetadataPath(aid) \in DOMAIN files THEN <<files[MetadataPath(aid)]>> ELSE <<>>>>

\* An entry for aid is stored: body file and sidecar are both there.
Stored(files, aid) ==
    /\ ActionIDToPath(aid) \in DOMAIN files
    /\ MetadataPath(aid) \in DOMAIN files

\* C37: while a Disk.Put that fails on its size check runs, a stored entry
\* of its ActionID stays as it was, so a following get still returns it.
C37_FailedPutKeepsEntry ==
    [][\A i \in Requests :
          (/\ Mismatched(i)
           /\ hpc[i] \in {"putCreate", "putCopy"}
           /\ Stored(fs, reqs[i].aid)) =>
             (EntryFiles(fs', reqs[i].aid) = EntryFiles(fs, reqs[i].aid))]_vars

\* C38: when the server process has ended, the backend's Close has been
\* invoked exactly once, after a close request as after the end of input.
C38_CloseExactlyOnce ==
    (runpc = "exited" /\ runErr = "nil") => closeCalls = 1

\* The same for a process that ended at the end of input, with no close
\* request and no error.
C38_CloseOnceAfterEof ==
    (runpc = "exited" /\ runErr = "nil" /\ \A i \in Requests : Spawned(i)) =>
       closeCalls = 1

\* The call of DoWithLock by goroutine c is over.
MemCallOver(c) == mpc[c] \in {"returned", "panicked"}

\* C40: every call of DoWithLock on a MemLock from NewMemLock that is over
\* has run its fn exactly once.
C40_EveryCallRunsFn ==
    \A c \in Callers : MemCallOver(c) => mruns[c] = 1

\* How often HandleRequest has been called.
NumAttempts == Len(rtpassed)

\* C34: HandleRequestWithRetries calls HandleRequest at least once and at
\* most maxRetries + 1 times, goes on only after an error and stops at the
\* first success, calls it once when maxRetries is 0 and once for close, and
\* returns the error of the last call.
C34_RetriesAreBounded ==
    /\ NumAttempts <= rtn + 1
    /\ rtattempt <= rtn
    /\ rtpc = "returned" =>
          /\ NumAttempts >= 1
          /\ \A k \in 1..(NumAttempts - 1) : rtpassed[k].err # NoErr
          /\ rtn = 0 => NumAttempts = 1
          /\ rtreq.cmd = "close" => NumAttempts = 1
          /\ rterr = rtpassed[NumAttempts].err
          /\ (rterr # NoErr /\ rtreq.cmd # "close") => NumAttempts = rtn + 1

\* A get succeeded at its third call, after two failures.
C34_Witness ==
    /\ rtpc = "returned"
    /\ rtreq.cmd = "get"
    /\ NumAttempts = 3
    /\ rterr = NoErr

\* A close failed and was not tried again although retries were allowed.
C34_WitnessClose ==
    /\ rtpc = "returned"
    /\ rtreq.cmd = "close"
    /\ rtn > 0
    /\ rterr # NoErr

\* C35: every call of HandleRequest for a retried put finds the whole body
\* in req.Body, as the first call did.
C35_RetryPassesWholeBody ==
    rtreq.cmd = "put" =>
       \A k \in 1..NumAttempts : rtpassed[k].body = rtreq.body

\* The same after failures that come before the body is read.
C35_WholeBodyAfterEarlyFailure ==
    (/\ rtreq.cmd = "put"
     /\ \A k \in 1..NumAttempts :
           rtpassed[k].err \in {NoErr, <<"failed to create cache file">>}) =>
       \A k \in 1..NumAttempts : rtpassed[k].body = rtreq.body

====
